---- MODULE Spec2Model ----
(***************************************************************************)
(* Event store of calendar-api-db: two SQLite variants (English, Russian), *)
(* each an `events` table with an AUTOINCREMENT id and an FTS5 index       *)
(* `events_fts` kept in step by three triggers, and the HTTP handlers of   *)
(* main.go that read and write them.                                       *)
(***************************************************************************)
EXTENDS Integers, Sequences, FiniteSets, TLC

VARIABLES
    db,      \* db[v]: the variant's storage [table, seq, fts]
    now,     \* the clock gorm's NowFunc reads
    nextUid, \* history: the serial of the next record to be inserted
    ever,    \* history: ever[v] = the <<id, uid>> pairs that ever were a row
    deleted, \* history: deleted[v] = the rows a DELETE removed
    writes,  \* number of write statements committed so far
    upd,     \* the update request between its SELECT and its UPDATE
    srch,    \* the search request between its count query and its page query
    last,    \* the last response sent
    proc     \* the server process: where main() stands, its environment, validAPIKeys

vars == <<db, now, nextUid, ever, deleted, writes, upd, srch, last, proc>>

-----------------------------------------------------------------------------
(* Bounds of the model *)

\* committed write statements per behaviour
MaxWrites == 2

-----------------------------------------------------------------------------
(* Values *)

\* An id is <<hi, lo>>: the upper and the lower 32-bit word of the Go uint /
\* SQLite INTEGER.  lo stays far below 2^32 in every state of the model.
ZeroId == <<0, 0>>
Id(n) == <<0, n>>
\* 4294967296, the first id above the unsigned 32-bit range
BigId == <<1, 0>>

IdLess(a, b) == a[1] < b[1] \/ (a[1] = b[1] /\ a[2] < b[2])
IdMax(a, b) == IF IdLess(a, b) THEN b ELSE a
IdSucc(a) == <<a[1], a[2] + 1>>

Variants == {"en", "ru"}

\* strings.ToLower on the language codes the model sends
LangCodes == {"en", "RU"}
ToLowerLang(code) ==
    CASE code \in {"RU", "Ru", "rU"} -> "ru"
      [] code = "EN" -> "en"
      [] OTHER -> code

\* langCode == "ru", without strings.ToLower
getDBInstanceExact(langCode) == IF langCode = "ru" THEN "ru" ELSE "en"

\* getDBInstance: DB_RU for "ru" in any letter case, DB_EN for anything else
getDBInstance(langCode) == IF ToLowerLang(langCode) = "ru" THEN "ru" ELSE "en"

\* the zero time.Time
ZeroTime == 0

\* an Event as BodyParser fills it: fields absent from the JSON keep Go's zero
\* value.  title, description and tags are sequences of words.
Ev(id, date, title, description, tags, media, refs, created, updated) ==
    [id |-> id, date |-> date, title |-> title, description |-> description,
     tags |-> tags, media |-> media, references |-> refs,
     created_at |-> created, updated_at |-> updated]

NoEvent == Ev(ZeroId, ZeroTime, <<>>, <<>>, <<>>, "", "", ZeroTime, ZeroTime)

\* request bodies of POST /api/events the model sends
SampleEvents == <<
    Ev(ZeroId, 1, <<"Pizza", "day">>, <<"genesis">>, <<"first">>, "m1", "r1", ZeroTime, ZeroTime),
    Ev(Id(1), 2, <<"genesis">>, <<>>, <<>>, "", "", 1, ZeroTime),
    Ev(BigId, 2, <<"day">>, <<>>, <<>>, "", "", ZeroTime, ZeroTime),
    Ev(ZeroId, 1, <<>>, <<"day">>, <<>>, "", "", ZeroTime, ZeroTime),
    Ev(ZeroId, ZeroTime, <<"day">>, <<>>, <<>>, "", "", ZeroTime, ZeroTime) >>

\* request bodies of POST /api/events/batch
SampleBatches == <<
    <<>>,
    <<NoEvent>>,
    <<SampleEvents[2], SampleEvents[1]>> >>

\* request bodies of PUT /api/events/:id, as the map BodyParser builds: the
\* columns it sets, and the keys that name no field of Event
Patch(set, unknown) == [set |-> set, unknown |-> unknown]

SamplePatches == <<
    Patch([title |-> <<"genesis">>, media |-> "m2"], {}),
    Patch([title |-> <<>>, date |-> ZeroTime], {}),
    Patch([id |-> Id(2)], {}),
    Patch([updated_at |-> 1], {}),
    Patch([tags |-> <<"Pizza">>], {"foo"}),
    Patch(<<>>, {}) >>

\* the :id path parameter: a decimal numeral or some other text
Numeral(id) == [digits |-> TRUE, value |-> id]
NotANumeral == [digits |-> FALSE, value |-> ZeroId]
PathIds == {Numeral(Id(1)), Numeral(Id(2)), Numeral(BigId), NotANumeral}

\* strconv.ParseUint(id, 10, 64) in its place
ParseUint64(p) ==
    IF p.digits
    THEN [err |-> FALSE, value |-> p.value]
    ELSE [err |-> TRUE, value |-> ZeroId]

\* strconv.ParseUint(id, 10, 32)
ParseUint32(p) ==
    IF p.digits /\ p.value[1] = 0
    THEN [err |-> FALSE, value |-> p.value]
    ELSE [err |-> TRUE, value |-> ZeroId]

-----------------------------------------------------------------------------
(* Go's int and int64 *)

\* A Go int (64 bits here) is [k, o]: the number k * 2^63 + o, with k in
\* {-1, 0, 1} and o small.  GoInt(n) is a small number, MaxInt is 2^63 - 1.
GoInt(n) == [k |-> 0, o |-> n]
MaxInt == [k |-> 1, o |-> 0 - 1]

\* two's complement: k * 2^63 + o modulo 2^64, in -2^63 .. 2^63 - 1
Wrap(k, o) ==
    IF k % 2 = 0 THEN [k |-> 0, o |-> o]
    ELSE IF o >= 0 THEN [k |-> 0 - 1, o |-> o]
    ELSE [k |-> 1, o |-> o]

IntAdd(a, b) == Wrap(a.k + b.k, a.o + b.o)
IntMul(a, b) == Wrap(a.k * b.o + b.k * a.o, a.o * b.o)
IntLess(a, b) == a.k < b.k \/ (a.k = b.k /\ a.o < b.o)

\* a / b in Go, truncated toward zero, for the operands the handlers divide:
\* both small, or a divisor near 2^63
IntDiv(a, b) ==
    LET Abs(n) == IF n < 0 THEN 0 - n ELSE n
        \* |v| - 2^63 of a number near 2^63 or near -2^63
        Mag(v) == IF v.k = 1 THEN v.o ELSE 0 - v.o
        q == IF Mag(a) >= Mag(b) THEN 1 ELSE 0
    IN  CASE a.k = 0 /\ b.k = 0 ->
                GoInt(IF (a.o < 0) = (b.o < 0) THEN Abs(a.o) \div Abs(b.o)
                      ELSE 0 - (Abs(a.o) \div Abs(b.o)))
          [] a.k = 0 /\ b.k # 0 -> GoInt(0)
          [] a.k # 0 /\ b.k # 0 -> GoInt(IF a.k = b.k THEN q ELSE 0 - q)

-----------------------------------------------------------------------------
(* Text *)

\* A text is a sequence of characters, a character a string of length one;
\* "U+0411" and "U+0431" are the Cyrillic capital and small letter BE.
\* SQLite's LOWER() and the case folding of LIKE: ASCII letters only
AsciiLowerChar(ch) == CASE ch = "A" -> "a" [] ch = "B" -> "b" [] OTHER -> ch
\* Go's strings.ToLower: every letter Unicode knows
ToLowerChar(ch) == IF ch = "U+0411" THEN "U+0431" ELSE AsciiLowerChar(ch)

AsciiLower(t) == [i \in 1..Len(t) |-> AsciiLowerChar(t[i])]
ToLower(t) == [i \in 1..Len(t) |-> ToLowerChar(t[i])]

\* s sorts before t under BINARY, the order of the code points
RECURSIVE TextLess(_, _)
TextLess(s, t) ==
    LET CodePoint(ch) ==
            CASE ch = "\t" -> 9 [] ch = " " -> 32 [] ch = "\"" -> 34 [] ch = "%" -> 37
              [] ch = "," -> 44 [] ch = "1" -> 49 [] ch = "5" -> 53 [] ch = ":" -> 58
              [] ch = "A" -> 65 [] ch = "B" -> 66 [] ch = "[" -> 91 [] ch = "]" -> 93
              [] ch = "_" -> 95 [] ch = "a" -> 97 [] ch = "b" -> 98 [] ch = "x" -> 120
              [] ch = "{" -> 123 [] ch = "}" -> 125
              [] ch = "U+0411" -> 1041 [] ch = "U+0431" -> 1073
    IN  IF t = <<>> THEN FALSE
        ELSE IF s = <<>> THEN TRUE
        ELSE IF s[1] # t[1] THEN CodePoint(s[1]) < CodePoint(t[1])
        ELSE TextLess(Tail(s), Tail(t))

\* X LIKE pattern: % is any run of characters, _ any one character, letters
\* of ASCII match without regard to case; there is no escape character
RECURSIVE Like(_, _)
Like(pattern, x) ==
    IF pattern = <<>> THEN x = <<>>
    ELSE IF pattern[1] = "%"
    THEN Like(Tail(pattern), x) \/ (x # <<>> /\ Like(pattern, Tail(x)))
    ELSE /\ x # <<>>
         /\ pattern[1] = "_" \/ AsciiLowerChar(pattern[1]) = AsciiLowerChar(x[1])
         /\ Like(Tail(pattern), Tail(x))

-----------------------------------------------------------------------------
(* Storage of one variant: the events table, sqlite_sequence, events_fts *)

Columns == {"id", "date", "title", "description", "tags", "media", "references",
            "created_at", "updated_at"}

\* a row of events; uid is the history serial of the record, not a column
Row(e, uid) == [c \in Columns \cup {"uid"} |-> IF c = "uid" THEN uid ELSE e[c]]
\* the columns of a row, as the Event the handlers serialise
Cols(r) == [c \in Columns |-> r[c]]
NoRow == Row(NoEvent, 0)

Ids(table) == {r.id : r \in table}
RowAt(table, id) == CHOOSE r \in table : r.id = id

\* FTS5's default tokenizer (unicode61) folds case, of every alphabet
Lower(w) ==
    CASE w = "Pizza" -> "pizza" [] w = "OR" -> "or" [] w = "AND" -> "and"
      [] OTHER -> ToLowerChar(w)
\* and takes every character that is no letter and no digit as a separator
Separators == {"[", "]", "\"", ",", " ", "\t", "{", "}", ":", "%", "_", "'", ".", "!", "?"}

\* the index entries FTS5 keeps for one document: one per column and token,
\* pos the place of the token among the tokens of the column
ColPostings(rowid, col, text) ==
    {[rowid |-> rowid, col |-> col, term |-> Lower(text[i]),
      pos |-> Cardinality({j \in 1..i : text[j] \notin Separators})] :
        i \in {k \in 1..Len(text) : text[k] \notin Separators}}
Postings(rowid, title, description, tags) ==
    ColPostings(rowid, "title", title) \cup ColPostings(rowid, "description", description)
        \cup ColPostings(rowid, "tags", tags)

EmptyFts == [docs |-> {}, postings |-> {}]
\* INSERT INTO events_fts(rowid, title, description, tags) VALUES (...)
FtsInsert(f, rowid, title, description, tags) ==
    [docs |-> f.docs \cup {rowid},
     postings |-> f.postings \cup Postings(rowid, title, description, tags)]
\* INSERT INTO events_fts(events_fts, rowid, ...) VALUES ('delete', ...)
FtsDelete(f, rowid, title, description, tags) ==
    [docs |-> f.docs \ {rowid},
     postings |-> f.postings \ Postings(rowid, title, description, tags)]

events_after_insert(f, new) == FtsInsert(f, new.id, new.title, new.description, new.tags)

events_after_delete(f, old) == FtsDelete(f, old.id, old.title, old.description, old.tags)

events_after_update_keep_old(f, old, new) ==
    FtsInsert(f, new.id, new.title, new.description, new.tags)
events_after_update(f, old, new) ==
    FtsInsert(FtsDelete(f, old.id, old.title, old.description, old.tags),
              new.id, new.title, new.description, new.tags)

\* the objects InitDB leaves in sqlite_master: the table, the search index,
\* the three triggers and the two indexes
Schema ==
    {"events", "events_fts", "events_after_insert", "events_after_delete",
     "events_after_update", "idx_events_date", "idx_events_tags"}

\* a database file after InitDB, holding no event yet
EmptyDb == [table |-> {}, seq |-> ZeroId, fts |-> EmptyFts, schema |-> Schema]

MaxRowid(table) ==
    IF table = {} THEN ZeroId
    ELSE CHOOSE m \in Ids(table) : \A i \in Ids(table) : ~IdLess(m, i)
\* id integer PRIMARY KEY AUTOINCREMENT: above every rowid the table ever held
NextRowid(d) == IdSucc(IdMax(d.seq, MaxRowid(d.table)))

\* a statement that fails is rolled back whole, triggers included
RollbackKeep(before, partial) == partial
Rollback(before, partial) == before

Failed(err, d) == [err |-> err, d |-> d, rows |-> 0, id |-> ZeroId]
Done(d, rows, id) == [err |-> "", d |-> d, rows |-> rows, id |-> id]

\* one row of an INSERT: gorm sends the id when it is not zero, and fills a
\* zero created_at / updated_at with NowFunc()
InsertRow(d, e, uid, t, ioFail) ==
    LET id == IF e.id = ZeroId THEN NextRowid(d) ELSE e.id
        row == Row([e EXCEPT !.id = id,
                             !.created_at = IF @ = ZeroTime THEN t ELSE @,
                             !.updated_at = IF @ = ZeroTime THEN t ELSE @], uid)
        put == [d EXCEPT !.table = @ \cup {row}, !.seq = IdMax(@, id)]
    IN  IF id \in Ids(d.table) THEN Failed("constraint", d)
        ELSE IF ioFail THEN Failed("io", put)
        ELSE Done([put EXCEPT !.fts = events_after_insert(@, row)], 1, id)

\* INSERT of evs[k..], the uid of evs[k] being uid0 + k - 1; failAt is the
\* row whose trigger hits a storage error (0: none)
RECURSIVE InsertFrom(_, _, _, _, _, _)
InsertFrom(d, evs, k, uid0, t, failAt) ==
    IF k > Len(evs) THEN Done(d, Len(evs), ZeroId)
    ELSE LET r == InsertRow(d, evs[k], uid0 + k - 1, t, failAt = k)
         IN  IF r.err # "" THEN r
             ELSE LET rest == InsertFrom(r.d, evs, k + 1, uid0, t, failAt)
                  IN  IF k = Len(evs) THEN [rest EXCEPT !.id = r.id] ELSE rest

\* db.Create sending one INSERT per event, each in a transaction of its own
ExecInsertEach(d, evs, uid0, t, failAt) ==
    LET r == InsertFrom(d, evs, 1, uid0, t, failAt)
    IN  IF r.err # ""
        THEN Failed(r.err, [r.d EXCEPT !.table = {x \in @ : x.id \in r.d.fts.docs}])
        ELSE r

\* db.Create: one INSERT statement in gorm's default transaction
ExecInsert(d, evs, uid0, t, failAt) ==
    LET r == InsertFrom(d, evs, 1, uid0, t, failAt)
    IN  IF r.err # "" THEN Failed(r.err, Rollback(d, r.d)) ELSE r

\* gorm's assignments for Updates(map): every key of the map, and updated_at
\* = NowFunc() unless the map carries it
ApplyPatch(r, patch, t) ==
    [c \in DOMAIN r |->
        IF c \in DOMAIN patch.set THEN patch.set[c]
        ELSE IF c = "updated_at" THEN t
        ELSE r[c]]

\* db.Model(&event).Updates(map): UPDATE events SET ... WHERE id = event.ID
ExecUpdate(d, id, patch, t, ioFail) ==
    IF patch.unknown # {} THEN Failed("sql", d)
    ELSE IF id \notin Ids(d.table) THEN Done(d, 0, id)
    ELSE LET old == RowAt(d.table, id)
             new == ApplyPatch(old, patch, t)
             put == [d EXCEPT !.table = (@ \ {old}) \cup {new}]
         IN  IF new.id # old.id /\ new.id \in Ids(d.table) THEN Failed("constraint", d)
             \* the trigger's 'delete' of a document the index does not hold
             ELSE IF id \notin d.fts.docs THEN Failed("malformed", d)
             ELSE IF ioFail THEN Failed("io", Rollback(d, put))
             ELSE Done([put EXCEPT !.fts = events_after_update(@, old, new)], 1, new.id)

DeleteWhereKeep(table, id) == table
\* DELETE FROM events WHERE id = ?
DeleteWhere(table, id) == {r \in table : r.id # id}

\* db.Delete(&Event{}, id)
ExecDelete(d, id, ioFail) ==
    IF id \notin Ids(d.table) THEN Done(d, 0, id)
    ELSE IF id \notin d.fts.docs THEN Failed("malformed", d)
    ELSE LET old == RowAt(d.table, id)
             put == [d EXCEPT !.table = DeleteWhere(@, id)]
         IN  IF ioFail THEN Failed("io", Rollback(d, put))
             ELSE Done([put EXCEPT !.fts = events_after_delete(@, old)], 1, id)

-----------------------------------------------------------------------------
(* InitDB *)

\* a database file that does not exist yet
NoFile == [EmptyDb EXCEPT !.schema = {}]

\* CREATE TABLE / VIRTUAL TABLE / TRIGGER / INDEX name, dropping what name held
CreateAnew(d, name) ==
    [d EXCEPT !.schema = @ \cup {name},
              !.fts = IF name = "events_fts" THEN EmptyFts ELSE @]
\* CREATE ... IF NOT EXISTS name, and AutoMigrate for a table it finds
CreateIfNotExists(d, name) == [d EXCEPT !.schema = @ \cup {name}]

\* SELECT count(*) FROM events_fts: declared with content='events', the
\* index keeps no rows of its own and a scan of it reads the rows of events
FtsCount(d) == Cardinality(d.table)

\* if count > 0 && ftsCount == 0: INSERT INTO events_fts(rowid, title,
\* description, tags) SELECT id, title, description, tags FROM events
Backfill(d) ==
    LET RECURSIVE InsertAll(_, _)
        InsertAll(f, rows) ==
            IF rows = {} THEN f
            ELSE LET r == CHOOSE x \in rows : TRUE
                 IN  InsertAll(FtsInsert(f, r.id, r.title, r.description, r.tags), rows \ {r})
    IN  IF Cardinality(d.table) > 0 /\ FtsCount(d) = 0
        THEN [d EXCEPT !.fts = InsertAll(@, d.table)]
        ELSE d

\* InitDB on file d: AutoMigrate, the search index, the three triggers, the
\* backfill, the two indexes.  Statement failAt fails (0: none) and InitDB
\* returns its error; what the statements before it did stays in the file.
InitDB(d, failAt) ==
    LET Statement(k, f) ==
            CASE k = 1 -> CreateIfNotExists(f, "events")
              [] k = 2 -> CreateIfNotExists(f, "events_fts")
              [] k = 3 -> CreateIfNotExists(f, "events_after_insert")
              [] k = 4 -> CreateIfNotExists(f, "events_after_delete")
              [] k = 5 -> CreateIfNotExists(f, "events_after_update")
              [] k = 6 -> Backfill(f)
              [] k = 7 -> CreateIfNotExists(f, "idx_events_date")
              [] k = 8 -> CreateIfNotExists(f, "idx_events_tags")
        RECURSIVE From(_, _)
        From(k, f) ==
            IF k = failAt THEN Failed("io", f)
            ELSE IF k > 8 THEN Done(f, 0, ZeroId)
            ELSE From(k + 1, Statement(k, f))
    IN  From(1, d)

-----------------------------------------------------------------------------
(* Full-text search over events_fts *)

\* the query texts of GET /api/search the model sends, as sequences of words
SampleQueries == {<<>>, <<"Pizza">>, <<"genesis">>, <<"pizza", "day">>}

\* strings.ReplaceAll(query, "\"", "\"\""): a query is a sequence of words
\* and marks, and every quotation mark is doubled
RECURSIVE Sanitize(_)
Sanitize(q) ==
    IF q = <<>> THEN q
    ELSE (IF q[1] = "\"" THEN <<"\"", "\"">> ELSE <<q[1]>>) \o Sanitize(Tail(q))

\* the runs of tokens between the occurrences of op
RECURSIVE SplitAt(_, _)
SplitAt(tokens, op) ==
    IF \A i \in 1..Len(tokens) : tokens[i] # op THEN <<tokens>>
    ELSE LET i == CHOOSE k \in 1..Len(tokens) :
                      tokens[k] = op /\ \A j \in 1..(k - 1) : tokens[j] # op
         IN  <<SubSeq(tokens, 1, i - 1)>> \o SplitAt(SubSeq(tokens, i + 1, Len(tokens)), op)

\* a run of phrases joined by the implicit AND: a bare word, column : word,
\* or "" (what Sanitize leaves of a quotation mark: a phrase of no words).
\* Its terms, each [col, term], col "" for any column, or its error.
RECURSIVE Fts5Phrases(_)
Fts5Phrases(tokens) ==
    LET Ok(terms) == [err |-> "", terms |-> terms]
        Err(err) == [err |-> err, terms |-> {}]
        \* the binary operators, and marks the query grammar has no place for
        notWords == {"AND", "OR", "NOT", ":", "'", ",", ".", "!", "?"}
    IN  IF tokens = <<>> THEN Ok({})
        ELSE IF tokens[1] = "\"" THEN
            IF Len(tokens) >= 2 /\ tokens[2] = "\""
            THEN Fts5Phrases(SubSeq(tokens, 3, Len(tokens)))
            ELSE Err("fts5: syntax error")
        ELSE IF tokens[1] \in notWords THEN Err("fts5: syntax error")
        ELSE IF Len(tokens) >= 2 /\ tokens[2] = ":" THEN
            IF Len(tokens) < 3 \/ tokens[3] \in notWords \cup {"\""}
            THEN Err("fts5: syntax error")
            ELSE IF tokens[1] \notin {"title", "description", "tags"} THEN Err("no such column")
            ELSE LET rest == Fts5Phrases(SubSeq(tokens, 4, Len(tokens)))
                 IN  IF rest.err # "" THEN rest
                     ELSE Ok(rest.terms \cup {[col |-> tokens[1], term |-> Lower(tokens[3])]})
        ELSE LET rest == Fts5Phrases(Tail(tokens))
             IN  IF rest.err # "" THEN rest
                 ELSE Ok(rest.terms \cup {[col |-> "", term |-> Lower(tokens[1])]})

\* the error of events_fts MATCH tokens, "" when the tokens are a query: an
\* operator needs a run of phrases on either side
Fts5Error(tokens) ==
    LET SeqSet(s) == {s[i] : i \in 1..Len(s)}
        \* the runs of phrases of the query
        runs == UNION {UNION {SeqSet(SplitAt(a, "NOT")) : a \in SeqSet(SplitAt(o, "AND"))} :
                       o \in SeqSet(SplitAt(tokens, "OR"))}
    IN  IF <<>> \in runs THEN "fts5: syntax error"
        ELSE IF \E r \in runs : Fts5Phrases(r).err # ""
        THEN Fts5Phrases(CHOOSE r \in runs : Fts5Phrases(r).err # "").err
        ELSE ""

\* rowids of the documents that events_fts MATCH sanitizedQuery selects: OR
\* of AND of NOT of runs of phrases
MatchIds(f, q) ==
    LET \* the rowids that hold every term of a run of phrases; none for a run
        \* of empty phrases
        PhraseIds(tokens) ==
            LET terms == Fts5Phrases(tokens).terms
            IN  IF terms = {} THEN {}
                ELSE {id \in f.docs : \A t \in terms : \E p \in f.postings :
                          p.rowid = id /\ p.term = t.term /\ (t.col = "" \/ p.col = t.col)}
        \* a NOT b NOT c, the tightest of the operators
        NotIds(tokens) ==
            LET runs == SplitAt(tokens, "NOT")
            IN  PhraseIds(runs[1]) \ UNION {PhraseIds(runs[i]) : i \in 2..Len(runs)}
        AndIds(tokens) ==
            LET parts == SplitAt(tokens, "AND")
            IN  {id \in f.docs : \A i \in 1..Len(parts) : id \in NotIds(parts[i])}
        parts == SplitAt(Sanitize(q), "OR")
    IN  UNION {AndIds(parts[i]) : i \in 1..Len(parts)}

\* FROM events e JOIN events_fts fts ON e.id = fts.rowid WHERE events_fts MATCH ?
JoinMatch(d, q) == {r \in d.table : r.id \in MatchIds(d.fts, q)}

\* fts.rank: better matches have the lower rank; here the negated number of
\* index entries of the document that match a word of the query
Rank(f, id, q) ==
    0 - Cardinality({p \in f.postings :
            p.rowid = id /\ \E i \in 1..Len(q) : p.term = Lower(q[i])})

\* the results ORDER BY fts.rank can return: the order among equal ranks is open
Ranked(d, q) ==
    LET rows == JoinMatch(d, q)
        n == Cardinality(rows)
    IN  {s \in [1..n -> rows] :
            /\ \A i, j \in 1..n : i # j => s[i] # s[j]
            /\ \A i, j \in 1..n : i < j => Rank(d.fts, s[i].id, q) <= Rank(d.fts, s[j].id, q)}

\* LIMIT ? OFFSET ?
LimitOffset(s, limit, offset) ==
    SubSeq(s, offset + 1, IF offset + limit < Len(s) THEN offset + limit ELSE Len(s))

\* words SQLite reserves: a column of that name must be quoted
SqliteKeywords == {"references", "select", "from", "where", "order", "limit"}
\* the columns searchSQL selects from events, as written in the statement
SearchColumns == <<"id", "date", "title", "description", "tags", "media", "references">>
\* does searchSQL compile?
SearchSQLPrepares == \A i \in 1..Len(SearchColumns) : SearchColumns[i] \notin SqliteKeywords

\* c.Query("page", "1"), c.Query("limit", "20") with neither parameter sent
DefaultPage == 1
DefaultLimit == 20

-----------------------------------------------------------------------------
(* Requests and responses *)

\* a response: the HTTP status, the error the handler logged or dropped, and
\* the body (data, events, events_added, pagination, and the tags of /api/tags),
\* and its Access-Control-Allow-Origin header
Response(status) ==
    [status |-> status, err |-> "", event |-> NoRow, events |-> <<>>, total |-> 0, n |-> 0,
     allow_origin |-> "", current_page |-> GoInt(0), per_page |-> GoInt(0), last_page |-> GoInt(0), tags |-> <<>>]

NoResponse == Response(0)

IdleUpdate == [pc |-> "idle", variant |-> "en", body |-> 0, event |-> NoRow]
IdleSearch == [pc |-> "idle", variant |-> "en", query |-> <<>>, total |-> 0]

\* the process environment: API_KEYS and CORS_ALLOWED_ORIGINS ("" is unset)
Env(apiKeys, origins) == [API_KEYS |-> apiKeys, CORS_ALLOWED_ORIGINS |-> origins]

\* the process once main() has come to app.Listen, started with API_KEYS=k
Serving ==
    [pc |-> "serving", env |-> Env(<<"k">>, <<>>), validAPIKeys |-> << <<"k">> >>]

\* a write committing when DB_EN and DB_RU are handles on one database file
CommitShared(v, d, removed) ==
    /\ db' = [w \in Variants |-> d]
    /\ ever' = [ever EXCEPT ![v] = @ \cup {<<r.id, r.uid>> : r \in d.table}]
    /\ deleted' = [deleted EXCEPT ![v] = @ \cup removed]
    /\ writes' = writes + 1

\* a write statement on variant v has committed, leaving d; removed are the
\* rows it deleted
Commit(v, d, removed) ==
    /\ db' = [db EXCEPT ![v] = d]
    /\ ever' = [ever EXCEPT ![v] = @ \cup {<<r.id, r.uid>> : r \in d.table}]
    /\ deleted' = [deleted EXCEPT ![v] = @ \cup removed]
    /\ writes' = writes + 1

\* a write statement on variant v has failed with err, leaving d
Abort(v, d, err) ==
    /\ db' = [db EXCEPT ![v] = d]
    /\ last' = [Response(500) EXCEPT !.err = err]
    /\ UNCHANGED <<now, nextUid, ever, deleted, writes>>

Init ==
    /\ db = [v \in Variants |-> EmptyDb]
    /\ now = 2
    /\ nextUid = 1
    /\ ever = [v \in Variants |-> {}]
    /\ deleted = [v \in Variants |-> {}]
    /\ writes = 0
    /\ upd = IdleUpdate
    /\ srch = IdleSearch
    /\ last = NoResponse
    /\ proc = Serving

\* the body of POST /api/events: 0 is a body that is not the JSON of an Event
BodyEvent(body) == IF body = 0 THEN NoEvent ELSE SampleEvents[body]
\* createEventHandler's validation
Rejected(body) == body = 0 \/ BodyEvent(body).title = <<>> \/ BodyEvent(body).date = ZeroTime

\* POST /api/events
createEventHandler(lang, body, ioFail) ==
    LET v == getDBInstance(lang)
        r == ExecInsert(db[v], <<BodyEvent(body)>>, nextUid, now, IF ioFail THEN 1 ELSE 0)
    IN  /\ writes < MaxWrites
        /\ UNCHANGED <<upd, srch, proc>>
        /\ IF Rejected(body)
           THEN /\ last' = Response(400)
                /\ UNCHANGED <<db, now, nextUid, ever, deleted, writes>>
           ELSE IF r.err # ""
           THEN Abort(v, r.d, r.err)
           ELSE /\ Commit(v, r.d, {})
                /\ now' = now + 1
                /\ nextUid' = nextUid + 1
                /\ last' = [Response(201) EXCEPT !.event = RowAt(r.d.table, r.id)]

\* the body of POST /api/events/batch: 0 is a body that is not a JSON array
BodyEvents(body) == IF body = 0 THEN <<>> ELSE SampleBatches[body]

\* POST /api/events/batch
batchCreateEventsHandler(lang, body, failAt) ==
    LET v == getDBInstance(lang)
        events == BodyEvents(body)
        r == ExecInsert(db[v], events, nextUid, now, failAt)
    IN  /\ writes < MaxWrites
        /\ failAt <= Len(events)
        /\ UNCHANGED <<upd, srch, proc>>
        /\ IF body = 0 \/ Len(events) = 0
           THEN /\ last' = Response(400)
                /\ UNCHANGED <<db, now, nextUid, ever, deleted, writes>>
           ELSE IF r.err # ""
           THEN Abort(v, r.d, r.err)
           ELSE /\ Commit(v, r.d, {})
                /\ now' = now + 1
                /\ nextUid' = nextUid + Len(events)
                /\ last' = [Response(201) EXCEPT !.n = r.rows]

\* PUT /api/events/:id, up to its SELECT: the id is parsed, the row is loaded
\* with db.First, the body is parsed into the map; body 0 is not a JSON object
updateEventHandlerLoad(lang, path, body) ==
    LET v == getDBInstance(lang)
        id == ParseUint32(path)
    IN  /\ upd.pc = "idle"
        /\ UNCHANGED <<db, now, nextUid, ever, deleted, writes, srch, proc>>
        /\ IF id.err
           THEN last' = Response(400) /\ UNCHANGED upd
           ELSE IF id.value \notin Ids(db[v].table)
           THEN last' = Response(404) /\ UNCHANGED upd
           ELSE IF body = 0
           THEN last' = Response(400) /\ UNCHANGED upd
           ELSE /\ upd' = [pc |-> "loaded", variant |-> v, body |-> body,
                           event |-> RowAt(db[v].table, id.value)]
                /\ UNCHANGED last

\* PUT /api/events/:id, its UPDATE and its response: the event it loaded, with
\* the assignments gorm made to it
updateEventHandlerStore(ioFail) ==
    LET v == upd.variant
        patch == SamplePatches[upd.body]
        r == ExecUpdate(db[v], upd.event.id, patch, now, ioFail)
    IN  /\ upd.pc = "loaded"
        /\ writes < MaxWrites \/ upd.event.id \notin Ids(db[v].table)
        /\ upd' = IdleUpdate
        /\ UNCHANGED <<srch, proc>>
        /\ IF r.err # ""
           THEN Abort(v, r.d, r.err)
           ELSE /\ last' = [Response(200) EXCEPT !.event = ApplyPatch(upd.event, patch, now)]
                /\ IF r.rows = 0
                   THEN UNCHANGED <<db, now, nextUid, ever, deleted, writes>>
                   ELSE /\ Commit(v, r.d, {})
                        /\ now' = now + 1
                        /\ UNCHANGED nextUid

\* DELETE /api/events/:id
deleteEventHandler(lang, path, ioFail) ==
    LET v == getDBInstance(lang)
        id == ParseUint32(path)
        r == ExecDelete(db[v], id.value, ioFail)
    IN  /\ writes < MaxWrites
        /\ UNCHANGED <<upd, srch, proc>>
        /\ IF id.err
           THEN /\ last' = Response(400)
                /\ UNCHANGED <<db, now, nextUid, ever, deleted, writes>>
           ELSE IF r.err # ""
           THEN Abort(v, r.d, r.err)
           ELSE IF r.rows = 0
           THEN /\ last' = Response(404)
                /\ UNCHANGED <<db, now, nextUid, ever, deleted, writes>>
           ELSE /\ Commit(v, r.d, {RowAt(db[v].table, id.value)})
                /\ last' = Response(204)
                /\ UNCHANGED <<now, nextUid>>

getEventResponseUnchecked(d, path) ==
    LET id == ParseUint32(path)
    IN  IF id.err THEN Response(400)
        ELSE [Response(200) EXCEPT !.event =
                IF id.value \in Ids(d.table) THEN RowAt(d.table, id.value) ELSE NoRow]
\* the response of GET /api/events/:id on storage d
getEventResponse(d, path) ==
    LET id == ParseUint32(path)
    IN  IF id.err THEN Response(400)
        ELSE IF id.value \notin Ids(d.table) THEN Response(404)
        ELSE [Response(200) EXCEPT !.event = RowAt(d.table, id.value)]

\* GET /api/events/:id
getEventHandler(lang, path) ==
    /\ last' = getEventResponse(db[getDBInstance(lang)], path)
    /\ UNCHANGED <<db, now, nextUid, ever, deleted, writes, upd, srch, proc>>

-----------------------------------------------------------------------------
(* Listing: GET /api/events and GET /api/events/tags/:tag *)

DigitChars == <<"0", "1", "2", "3", "4", "5", "6", "7", "8", "9">>
\* n in decimal, width digits wide
RECURSIVE Digits(_, _)
Digits(n, width) ==
    IF width = 0 THEN <<>> ELSE Append(Digits(n \div 10, width - 1), DigitChars[(n % 10) + 1])

\* SQLite's strftime('%Y' | '%m' | '%d', date), with the calendar days of the
\* dates 1, 2, 3 of the model, in their order; the zero time.Time is
\* 0001-01-01
strftime(format, date) ==
    LET day == IF date = ZeroTime THEN [y |-> 1, m |-> 1, d |-> 1]
               ELSE << [y |-> 2009, m |-> 1, d |-> 3],
                       [y |-> 2021, m |-> 1, d |-> 3],
                       [y |-> 2021, m |-> 12, d |-> 13] >>[date]
    IN  CASE format = "%Y" -> Digits(day.y, 4)
          [] format = "%m" -> Digits(day.m, 2)
          [] format = "%d" -> Digits(day.d, 2)

\* A query parameter meant as a number: absent, the decimal numeral of a Go
\* int, a numeral too long for 64 bits, or text that is no numeral.
NoParam == [text |-> "absent", value |-> GoInt(0)]
IntParam(n) == [text |-> "numeral", value |-> n]
LongNumeral == [text |-> "long", value |-> GoInt(0)]
NoNumeral == [text |-> "other", value |-> GoInt(0)]

\* c.Query(key, defaultValue)
Query(param, defaultValue) == IF param.text = "absent" THEN IntParam(GoInt(defaultValue)) ELSE param

\* strconv.Atoi
Atoi(param) ==
    CASE param.text = "numeral" -> [value |-> param.value, err |-> FALSE]
      [] param.text = "long" -> [value |-> MaxInt, err |-> TRUE]
      [] OTHER -> [value |-> GoInt(0), err |-> TRUE]

\* page, _ := strconv.Atoi(pageStr); if page < 1 { page = 1 }
AtLeastOneIgnoringErr(a, fallback) ==
    IF IntLess(a.value, GoInt(1)) THEN GoInt(fallback) ELSE a.value
\* page, err := strconv.Atoi(pageStr); if err != nil || page < 1 { page = 1 }
AtLeastOne(a, fallback) ==
    IF a.err \/ IntLess(a.value, GoInt(1)) THEN GoInt(fallback) ELSE a.value

\* offset := (page - 1) * limit
Offset(page, limit) == IntMul(IntAdd(page, GoInt(0 - 1)), limit)
\* the rows a LIMIT or OFFSET of n stands for, out of len: all of them when n
\* is beyond len, none when n is not positive (gorm writes no OFFSET then)
RowCount(n, len) ==
    IF n.k = 1 THEN len
    ELSE IF n.k = 0 - 1 \/ n.o < 0 THEN 0
    ELSE IF n.o > len THEN len ELSE n.o

\* Order("date desc"): SQLite walks idx_events_date backwards, so rows of one
\* date come out by falling id
RECURSIVE OrderByDateDesc(_)
OrderByDateDesc(rows) ==
    IF rows = {} THEN <<>>
    ELSE LET first == CHOOSE r \in rows : \A q \in rows :
                          q.date < r.date \/ (q.date = r.date /\ ~IdLess(r.id, q.id))
         IN  <<first>> \o OrderByDateDesc(rows \ {first})

\* .Limit(limit).Offset(offset).Find(&events)
Find(rows, limit, offset) ==
    LET s == OrderByDateDesc(rows)
    IN  LimitOffset(s, RowCount(limit, Len(s)), RowCount(offset, Len(s)))

\* PaginatedEventsResponse, with
\* totalPages := (totalEvents + int64(limit) - 1) / int64(limit)
Paginated(events, page, limit, totalEvents) ==
    [Response(200) EXCEPT
        !.events = events, !.total = totalEvents,
        !.current_page = page, !.per_page = limit,
        !.last_page = IntDiv(IntAdd(IntAdd(GoInt(totalEvents), limit), GoInt(0 - 1)), limit)]

\* the Where clauses of getAllEventsHandler; an empty text is an absent filter
DateWhere(r, yearStr, monthStr, dayStr) ==
    LET \* if len(monthStr) == 1 { monthStr = "0" + monthStr }
        Pad(s) == IF Len(s) = 1 THEN <<"0">> \o s ELSE s
    IN  /\ yearStr # <<>> => strftime("%Y", r.date) = yearStr
        /\ monthStr # <<>> => strftime("%m", r.date) = Pad(monthStr)
        /\ dayStr # <<>> => strftime("%d", r.date) = Pad(dayStr)

\* the response of GET /api/events on storage d
getAllEventsResponse(d, pageStr, limitStr, yearStr, monthStr, dayStr) ==
    LET page == AtLeastOneIgnoringErr(Atoi(Query(pageStr, DefaultPage)), DefaultPage)
        limit == AtLeastOneIgnoringErr(Atoi(Query(limitStr, DefaultLimit)), DefaultLimit)
        rows == {r \in d.table : DateWhere(r, yearStr, monthStr, dayStr)}
    IN  Paginated(Find(rows, limit, Offset(page, limit)), page, limit, Cardinality(rows))

\* GET /api/events
getAllEventsHandler(lang, pageStr, limitStr, yearStr, monthStr, dayStr) ==
    /\ last' = getAllEventsResponse(db[getDBInstance(lang)], pageStr, limitStr,
                                    yearStr, monthStr, dayStr)
    /\ UNCHANGED <<db, now, nextUid, ever, deleted, writes, upd, srch, proc>>

\* searchTerm := "%\"" + strings.ToLower(tagParam) + "\"%"
\* Where("LOWER(tags) LIKE ?", searchTerm)
TagWhere(r, tagParam) ==
    Like(<<"%", "\"">> \o ToLower(tagParam) \o <<"\"", "%">>, AsciiLower(r.tags))

\* the response of GET /api/events/tags/:tag on storage d
getEventsByTagResponse(d, tagParam, pageStr, limitStr) ==
    LET page == AtLeastOne(Atoi(Query(pageStr, DefaultPage)), DefaultPage)
        limit == AtLeastOne(Atoi(Query(limitStr, DefaultLimit)), DefaultLimit)
        rows == {r \in d.table : TagWhere(r, tagParam)}
    IN  IF tagParam = <<>> THEN Response(400)
        ELSE Paginated(Find(rows, limit, Offset(page, limit)), page, limit, Cardinality(rows))

\* GET /api/events/tags/:tag
getEventsByTagHandler(lang, tagParam, pageStr, limitStr) ==
    /\ last' = getEventsByTagResponse(db[getDBInstance(lang)], tagParam, pageStr, limitStr)
    /\ UNCHANGED <<db, now, nextUid, ever, deleted, writes, upd, srch, proc>>

-----------------------------------------------------------------------------
(* Tags: SQLite's JSON functions and GET /api/tags *)

\* the character at i, "" past the end
At(t, i) == IF i >= 1 /\ i <= Len(t) THEN t[i] ELSE ""

RECURSIVE SkipWs(_, _)
SkipWs(t, i) == IF At(t, i) \in {" ", "\t"} THEN SkipWs(t, i + 1) ELSE i

\* the outcome of parsing a JSON value that starts at i and ends before next
JsonFail == [ok |-> FALSE, next |-> 0, type |-> "", val |-> <<>>, raw |-> <<>>, elems |-> <<>>]
JsonValue(type, t, i, next, val, elems) ==
    [ok |-> TRUE, next |-> next, type |-> type, val |-> val,
     raw |-> SubSeq(t, i, next - 1), elems |-> elems]

RECURSIVE ParseValue(_, _)
RECURSIVE ParseElems(_, _, _, _)
RECURSIVE ParseMembers(_, _, _, _)

\* the elements of an array that began at start, from i on
ParseElems(t, start, i, acc) ==
    LET v == ParseValue(t, i)
        j == SkipWs(t, v.next)
    IN  IF ~v.ok THEN JsonFail
        ELSE IF At(t, j) = "," THEN ParseElems(t, start, j + 1, Append(acc, v))
        ELSE IF At(t, j) = "]" THEN JsonValue("array", t, start, j + 1, <<>>, Append(acc, v))
        ELSE JsonFail

\* the members of an object that began at start, from i on; its elements are
\* the values of the members
ParseMembers(t, start, i, acc) ==
    LET key == ParseValue(t, i)
        colon == SkipWs(t, key.next)
        v == ParseValue(t, colon + 1)
        j == SkipWs(t, v.next)
    IN  IF ~key.ok \/ key.type # "text" \/ At(t, colon) # ":" THEN JsonFail
        ELSE IF ~v.ok THEN JsonFail
        ELSE IF At(t, j) = "," THEN ParseMembers(t, start, j + 1, Append(acc, v))
        ELSE IF At(t, j) = "}" THEN JsonValue("object", t, start, j + 1, <<>>, Append(acc, v))
        ELSE JsonFail

\* a value: a string (the characters up to the next quotation mark; the texts
\* of the model hold no backslash), a number, an array or an object
ParseValue(t, i0) ==
    LET i == SkipWs(t, i0)
        ch == At(t, i)
        digits == {DigitChars[d] : d \in 1..10}
        Min(S) == CHOOSE m \in S : \A n \in S : m <= n
        quotes == {j \in (i + 1)..Len(t) : t[j] = "\""}
        others == {j \in i..Len(t) : t[j] \notin digits}
        numberEnd == IF others = {} THEN Len(t) + 1 ELSE Min(others)
    IN  IF ch = "\"" THEN
            IF quotes = {} THEN JsonFail
            ELSE JsonValue("text", t, i, Min(quotes) + 1, SubSeq(t, i + 1, Min(quotes) - 1), <<>>)
        ELSE IF ch \in digits
        THEN JsonValue("integer", t, i, numberEnd, SubSeq(t, i, numberEnd - 1), <<>>)
        ELSE IF ch = "[" THEN
            IF At(t, SkipWs(t, i + 1)) = "]"
            THEN JsonValue("array", t, i, SkipWs(t, i + 1) + 1, <<>>, <<>>)
            ELSE ParseElems(t, i, i + 1, <<>>)
        ELSE IF ch = "{" THEN
            IF At(t, SkipWs(t, i + 1)) = "}"
            THEN JsonValue("object", t, i, SkipWs(t, i + 1) + 1, <<>>, <<>>)
            ELSE ParseMembers(t, i, i + 1, <<>>)
        ELSE JsonFail

\* a whole text as JSON
Json(t) ==
    LET v == ParseValue(t, 1)
    IN  IF v.ok /\ SkipWs(t, v.next) = Len(t) + 1 THEN v ELSE JsonFail

json_valid(t) == Json(t).ok
json_type(t) == Json(t).type
\* json_each(t).value, CAST AS TEXT: one row per element of an array and per
\* member of an object, one row for any other value; the text of a string,
\* the JSON of any other element
json_each(t) ==
    LET elems == IF Json(t).type \in {"array", "object"} THEN Json(t).elems ELSE <<Json(t)>>
    IN  [i \in 1..Len(elems) |-> IF elems[i].type = "text" THEN elems[i].val ELSE elems[i].raw]

\* TRIM(X): spaces, and only spaces, off both ends
RECURSIVE Trim(_)
Trim(t) ==
    IF t = <<>> THEN t
    ELSE IF t[1] = " " THEN Trim(Tail(t))
    ELSE IF t[Len(t)] = " " THEN Trim(SubSeq(t, 1, Len(t) - 1))
    ELSE t

\* the WHERE clause without its json_valid and json_type conditions
TagsWhereNotEmpty(tags) ==
    /\ tags # <<>>
    /\ tags # <<"[", "]">>

\* the WHERE clause of getTagsHandler on the columns of events
TagsWhere(tags) ==
    /\ tags # <<>>
    /\ tags # <<"[", "]">>
    /\ json_valid(tags)
    /\ json_type(tags) = "array"

\* the rows of events e, json_each(e.tags) j that pass the WHERE clause, each
\* as <<row, position in the array, LOWER(j.value)>>
TagRows(table) ==
    UNION {{<<e.uid, i, AsciiLower(json_each(e.tags)[i])>> :
               i \in {k \in DOMAIN json_each(e.tags) : Trim(json_each(e.tags)[k]) # <<>>}} :
           e \in {r \in table : TagsWhere(r.tags)}}

\* ORDER BY tag ASC
RECURSIVE OrderByTag(_)
OrderByTag(tags) ==
    IF tags = {} THEN <<>>
    ELSE LET first == CHOOSE s \in tags : \A t \in tags : ~TextLess(t, s)
         IN  <<first>> \o OrderByTag(tags \ {first})

\* the response of GET /api/tags on storage d: GROUP BY LOWER(j.value); the
\* statement fails when json_each is handed a text that is not JSON
getTagsResponse(d) ==
    LET rows == TagRows(d.table)
        tags == OrderByTag({x[3] : x \in rows})
    IN  IF \E r \in d.table : TagsWhere(r.tags) /\ ~json_valid(r.tags)
        THEN [Response(500) EXCEPT !.err = "malformed JSON"]
        ELSE [Response(200) EXCEPT !.tags =
                [i \in 1..Len(tags) |->
                    [tag |-> tags[i], count |-> Cardinality({x \in rows : x[3] = tags[i]})]]]

\* GET /api/tags
getTagsHandler(lang) ==
    /\ last' = getTagsResponse(db[getDBInstance(lang)])
    /\ UNCHANGED <<db, now, nextUid, ever, deleted, writes, upd, srch, proc>>

-----------------------------------------------------------------------------
(* GET /api/search *)

\* countSQL: SELECT COUNT(*) FROM events e JOIN events_fts fts ... MATCH ?
CountSQL(d, q) == Cardinality(JoinMatch(d, q))

\* GET /api/search?q=..., up to its count query
ftsSearchHandlerCount(lang, q) ==
    LET v == getDBInstance(lang)
    IN  /\ srch.pc = "idle"
        /\ UNCHANGED <<db, now, nextUid, ever, deleted, writes, upd, proc>>
        /\ IF q = <<>>
           THEN /\ last' = Response(400)
                /\ UNCHANGED srch
           ELSE IF Fts5Error(Sanitize(q)) # ""
           THEN /\ last' = [Response(500) EXCEPT !.err = Fts5Error(Sanitize(q))]
                /\ UNCHANGED srch
           ELSE /\ srch' = [pc |-> "counted", variant |-> v, query |-> q,
                            total |-> CountSQL(db[v], q)]
                /\ UNCHANGED last

\* the responses the page query and the rest of ftsSearchHandler can give, the
\* count query having returned total
ftsSearchPage(d, q, total, pageStr, limitStr) ==
    LET page == AtLeastOne(Atoi(Query(pageStr, DefaultPage)), DefaultPage)
        limit == AtLeastOne(Atoi(Query(limitStr, DefaultLimit)), DefaultLimit)
        offset == Offset(page, limit)
    IN  IF ~SearchSQLPrepares
        THEN {[Response(500) EXCEPT !.err = "sql"]}
        ELSE {Paginated(LimitOffset(s, RowCount(limit, Len(s)), RowCount(offset, Len(s))),
                        page, limit, total) : s \in Ranked(d, q)}

\* the same, for a request that sends neither page nor limit
ftsSearchPageResponses(d, q, total) == ftsSearchPage(d, q, total, NoParam, NoParam)

\* GET /api/search?q=..., its page query and its response
ftsSearchHandlerPage ==
    /\ srch.pc = "counted"
    /\ srch' = IdleSearch
    /\ last' \in ftsSearchPageResponses(db[srch.variant], srch.query, srch.total)
    /\ UNCHANGED <<db, now, nextUid, ever, deleted, writes, upd, proc>>

Next ==
    \/ \E lang \in LangCodes, body \in 0..Len(SampleEvents), ioFail \in BOOLEAN :
            createEventHandler(lang, body, ioFail)
    \/ \E lang \in LangCodes, body \in 0..Len(SampleBatches), failAt \in 0..2 :
            batchCreateEventsHandler(lang, body, failAt)
    \/ \E lang \in LangCodes, path \in PathIds, body \in 0..Len(SamplePatches) :
            updateEventHandlerLoad(lang, path, body)
    \/ \E ioFail \in BOOLEAN : updateEventHandlerStore(ioFail)
    \/ \E lang \in LangCodes, path \in PathIds, ioFail \in BOOLEAN :
            deleteEventHandler(lang, path, ioFail)
    \/ \E lang \in LangCodes, path \in PathIds : getEventHandler(lang, path)
    \/ \E lang \in LangCodes, q \in SampleQueries : ftsSearchHandlerCount(lang, q)
    \/ ftsSearchHandlerPage

Spec == Init /\ [][Next]_vars

-----------------------------------------------------------------------------
(* The read handlers over stored tables *)

\* json.Marshal of a list of tags, as the clients and the import script
\* write the tags column
TagsJson(tags) ==
    LET RECURSIVE JoinQuoted(_)
        JoinQuoted(ts) ==
            IF ts = <<>> THEN <<>>
            ELSE <<"\"">> \o ts[1] \o <<"\"">>
                    \o (IF Len(ts) > 1 THEN <<",">> ELSE <<>>) \o JoinQuoted(Tail(ts))
    IN  <<"[">> \o JoinQuoted(tags) \o <<"]">>

\* an event of a stored table: its date and the text of its tags
Stored(date, tags) == Ev(ZeroId, date, <<"day">>, <<>>, tags, "", "", ZeroTime, ZeroTime)

\* the batches that filled the tables the read handlers are run on
SampleTables == <<
    << Stored(1, TagsJson(<< <<"a">>, <<"B">> >>)),
       Stored(2, TagsJson(<< <<"A">>, <<"a">> >>)),
       Stored(2, <<"x">>),
       Stored(3, <<"{", "\"", "a", "\"", ":", "5", "}">>) >>,
    << Stored(2, TagsJson(<< <<"x">> >>)),
       Stored(2, TagsJson(<< <<"a">>, <<" ">>, <<"\t">>, <<>> >>)),
       Stored(3, <<"\"", "a", "\"">>),
       Stored(1, <<>>) >>,
    << Stored(1, TagsJson(<< <<"U+0411">> >>)),
       Stored(2, TagsJson(<< <<"U+0431">>, <<"b">> >>)),
       Stored(2, <<"[", "]">>) >>,
    << >> >>

\* a variant after its table was filled by one batch
Load(batch) == IF batch = <<>> THEN EmptyDb ELSE ExecInsert(EmptyDb, batch, 1, 2, 0).d

\* the page and limit parameters, the date filters, the tags and the
\* language codes the model sends
Paginations ==
    {[page |-> p[1], limit |-> p[2]] : p \in
        {<<NoParam, NoParam>>,
         <<IntParam(GoInt(2)), IntParam(GoInt(1))>>,
         <<IntParam(GoInt(3)), IntParam(GoInt(1))>>,
         <<IntParam(GoInt(2)), IntParam(GoInt(2))>>,
         <<IntParam(GoInt(0)), IntParam(GoInt(0))>>,
         <<NoNumeral, NoNumeral>>,
         <<LongNumeral, IntParam(GoInt(2))>>,
         <<NoParam, IntParam(MaxInt)>>,
         <<IntParam(GoInt(3)), IntParam(MaxInt)>>}}
DateFilters ==
    {[year |-> f[1], month |-> f[2], day |-> f[3]] : f \in
        {<< <<>>, <<>>, <<>> >>,
         << <<"2", "0", "2", "1">>, <<>>, <<>> >>,
         << <<"2", "0", "2", "1">>, <<"1", "3">>, <<>> >>,
         << <<"2", "0", "2", "1">>, <<"x">>, <<>> >>,
         << <<"x">>, <<"1">>, <<>> >>,
         << <<>>, <<"0", "1">>, <<"3">> >>,
         << <<>>, <<"1", "2">>, <<"1", "3">> >>,
         << <<>>, <<>>, <<"3", "2">> >>}}
TagParams == {<<"a">>, <<"A">>, <<"b">>, <<"_">>, <<"%">>, <<"U+0411">>, <<"U+0431">>}
\* the lang parameter: "" stands for a request without it
LangParams == {"", "ru", "Ru", "fr"}
\* c.Query("lang", "en")
QueryLang(param) == IF param = "" THEN "en" ELSE param

\* the queries of GET /api/search with marks of the FTS5 grammar in them
MarkedQueries ==
    {<<"day">>, <<"a", "OR", "day">>, <<"day", "'", "s">>, <<"\"", "day", "\"">>,
     <<"tags", ":", "a">>, <<"AND">>}

\* GET /api/search as one step
ftsSearchHandler(lang, q, pageStr, limitStr) ==
    LET d == db[getDBInstance(lang)]
    IN  /\ last' \in (IF q = <<>> THEN {Response(400)}
                     ELSE IF Fts5Error(Sanitize(q)) # ""
                     THEN {[Response(500) EXCEPT !.err = Fts5Error(Sanitize(q))]}
                     ELSE ftsSearchPage(d, q, CountSQL(d, q), pageStr, limitStr))
        /\ UNCHANGED <<db, now, nextUid, ever, deleted, writes, upd, srch, proc>>

ReadInit ==
    \* the tables of the English and of the Russian variant
    /\ db \in {[v \in Variants |-> Load(SampleTables[IF v = "en" THEN p[1] ELSE p[2]])] :
                  p \in {<<1, 3>>, <<2, 1>>, <<3, 2>>, <<4, 3>>, <<1, 4>>, <<2, 2>>}}
    /\ now = 3
    /\ nextUid = 5
    /\ ever = [v \in Variants |-> {}]
    /\ deleted = [v \in Variants |-> {}]
    /\ writes = 0
    /\ upd = IdleUpdate
    /\ srch = IdleSearch
    /\ last = NoResponse
    /\ proc = Serving

ReadNext ==
    \/ \E lang \in LangParams, p \in Paginations, f \in DateFilters :
            getAllEventsHandler(QueryLang(lang), p.page, p.limit, f.year, f.month, f.day)
    \/ \E lang \in LangParams, tagParam \in TagParams, p \in Paginations :
            getEventsByTagHandler(QueryLang(lang), tagParam, p.page, p.limit)
    \/ \E lang \in LangParams : getTagsHandler(QueryLang(lang))
    \/ \E lang \in LangParams, path \in PathIds : getEventHandler(QueryLang(lang), path)
    \/ \E lang \in LangParams, q \in MarkedQueries, p \in Paginations :
            ftsSearchHandler(QueryLang(lang), q, p.page, p.limit)

ReadSpec == ReadInit /\ [][ReadNext]_vars

-----------------------------------------------------------------------------
(* The listing and search handlers, statement by statement, among writes *)

\* GET /api/events without parameters, up to query.Count(&totalEvents)
getAllEventsHandlerCount(lang) ==
    /\ srch.pc = "idle"
    /\ srch' = [pc |-> "events counted", variant |-> getDBInstance(lang), query |-> <<>>,
                total |-> Cardinality(db[getDBInstance(lang)].table)]
    /\ UNCHANGED <<db, now, nextUid, ever, deleted, writes, upd, last, proc>>

\* GET /api/events, its Find and its response
getAllEventsHandlerFind ==
    /\ srch.pc = "events counted"
    /\ srch' = IdleSearch
    /\ last' = Paginated(Find(db[srch.variant].table, GoInt(DefaultLimit),
                              Offset(GoInt(DefaultPage), GoInt(DefaultLimit))),
                         GoInt(DefaultPage), GoInt(DefaultLimit), srch.total)
    /\ UNCHANGED <<db, now, nextUid, ever, deleted, writes, upd, proc>>

\* GET /api/events/tags/:tag without parameters, up to countQuery.Count
getEventsByTagHandlerCount(lang, tagParam) ==
    /\ srch.pc = "idle"
    /\ tagParam # <<>>
    /\ srch' = [pc |-> "tag counted", variant |-> getDBInstance(lang), query |-> tagParam,
                total |-> Cardinality({r \in db[getDBInstance(lang)].table :
                                          TagWhere(r, tagParam)})]
    /\ UNCHANGED <<db, now, nextUid, ever, deleted, writes, upd, last, proc>>

\* GET /api/events/tags/:tag, its dataQuery.Find and its response
getEventsByTagHandlerFind ==
    /\ srch.pc = "tag counted"
    /\ srch' = IdleSearch
    /\ last' = Paginated(Find({r \in db[srch.variant].table : TagWhere(r, srch.query)},
                              GoInt(DefaultLimit),
                              Offset(GoInt(DefaultPage), GoInt(DefaultLimit))),
                         GoInt(DefaultPage), GoInt(DefaultLimit), srch.total)
    /\ UNCHANGED <<db, now, nextUid, ever, deleted, writes, upd, proc>>

ListNext ==
    \/ \E lang \in LangCodes : getAllEventsHandlerCount(lang)
    \/ getAllEventsHandlerFind
    \/ \E lang \in LangCodes, tagParam \in {<<"a">>, <<"x">>} :
            getEventsByTagHandlerCount(lang, tagParam)
    \/ getEventsByTagHandlerFind
    \/ \E lang \in LangCodes : ftsSearchHandlerCount(lang, <<"day">>)
    \/ ftsSearchHandlerPage
    \/ \E lang \in LangCodes, body \in 1..2 : createEventHandler(lang, body, FALSE)
    \/ \E lang \in LangCodes, path \in PathIds : deleteEventHandler(lang, path, FALSE)

ListSpec == ReadInit /\ [][ListNext]_vars

-----------------------------------------------------------------------------
(* The process: main(), its middleware, the routes under /api *)

\* the database files main() finds: none; the file an InitDB of before the
\* search index left (a filled events table and its two indexes); a file of
\* this InitDB, filled through the handlers
SampleFiles == <<
    NoFile,
    [Load(SampleBatches[3]) EXCEPT !.fts = EmptyFts,
                                   !.schema = {"events", "idx_events_date", "idx_events_tags"}],
    Load(SampleBatches[3]) >>

\* values of API_KEYS, character by character (<<>>: unset or empty)
SampleApiKeys == <<
    <<>>,
    <<",">>,
    <<" ", ",", "\t">>,
    <<"k">>,
    <<" ", "k", ",", " ", "q", " ", ",", ",">> >>

\* values of CORS_ALLOWED_ORIGINS, origin by origin (<<>>: unset or empty)
SampleAllowedOrigins == <<
    <<>>,
    <<"http://a.example", ",", " ", "http://b.example">> >>

\* main's parsing of API_KEYS: the log.Fatal it ends in, or validAPIKeys
ParseAPIKeys(apiKeysStr) ==
    LET RECURSIVE TrimSpace(_)
        TrimSpace(t) ==
            IF t = <<>> THEN t
            ELSE IF t[1] \in {" ", "\t", "\n"} THEN TrimSpace(Tail(t))
            ELSE IF t[Len(t)] \in {" ", "\t", "\n"} THEN TrimSpace(SubSeq(t, 1, Len(t) - 1))
            ELSE t
        keys == SplitAt(apiKeysStr, ",")
        RECURSIVE Append1(_)
        Append1(k) ==
            IF k > Len(keys) THEN <<>>
            ELSE (IF TrimSpace(keys[k]) # <<>> THEN <<TrimSpace(keys[k])>> ELSE <<>>)
                    \o Append1(k + 1)
    IN  IF apiKeysStr = <<>> THEN [fatal |-> TRUE, keys |-> <<>>]
        ELSE IF Len(keys) = 0 \/ (Len(keys) = 1 /\ keys[1] = <<>>)
        THEN [fatal |-> TRUE, keys |-> <<>>]
        ELSE [fatal |-> Append1(1) = <<>>, keys |-> Append1(1)]

\* main(), from its start to app.Listen or to the log.Fatal that ends it
main(failEN, failRU) ==
    LET keys == ParseAPIKeys(proc.env.API_KEYS)
        en == InitDB(db["en"], failEN)
        ru == InitDB(db["ru"], failRU)
        Exit(d) == /\ proc' = [proc EXCEPT !.pc = "exited", !.validAPIKeys = keys.keys]
                   /\ db' = d
    IN  /\ proc.pc = "main"
        /\ UNCHANGED <<now, nextUid, ever, deleted, writes, upd, srch, last>>
        /\ IF keys.fatal THEN Exit(db)
           ELSE IF en.err # "" THEN Exit([db EXCEPT !["en"] = en.d])
           ELSE IF ru.err # "" THEN Exit([db EXCEPT !["en"] = en.d, !["ru"] = ru.d])
           ELSE /\ proc' = [proc EXCEPT !.pc = "serving", !.validAPIKeys = keys.keys]
                /\ db' = [db EXCEPT !["en"] = en.d, !["ru"] = ru.d]

\* the process ends, with the requests it was serving, and is started again
Restart ==
    /\ proc.pc \in {"serving", "exited"}
    /\ proc' = [proc EXCEPT !.pc = "main", !.validAPIKeys = <<>>]
    /\ upd' = IdleUpdate
    /\ srch' = IdleSearch
    /\ last' = NoResponse
    /\ UNCHANGED <<db, now, nextUid, ever, deleted, writes>>

\* authMiddleware accepting every key that is not empty
authMiddlewareAnyKey(validAPIKeys, providedKey) ==
    IF providedKey = <<>> THEN [Response(401) EXCEPT !.err = "API key required"]
    ELSE NoResponse
\* authMiddleware: the 401 it answers, or NoResponse when it calls c.Next()
authMiddleware(validAPIKeys, providedKey) ==
    IF providedKey = <<>> THEN [Response(401) EXCEPT !.err = "API key required"]
    ELSE IF \E i \in 1..Len(validAPIKeys) : validAPIKeys[i] = providedKey THEN NoResponse
    ELSE [Response(401) EXCEPT !.err = "Invalid API key"]

getAllowedOrigins(env) ==
    IF env.CORS_ALLOWED_ORIGINS = <<>> THEN <<"http://localhost:3000">>
    ELSE env.CORS_ALLOWED_ORIGINS

\* the cors middleware echoing whatever Origin it is sent
AllowAnyOrigin(allowOrigins, origin) == origin
\* the cors middleware's allowOrigin for a request from origin: AllowOrigins
\* is split at the commas and cleared of spaces, and origin is looked up
AllowOrigin(allowOrigins, origin) ==
    LET parts == SplitAt(SelectSeq(allowOrigins, LAMBDA o : o # " "), ",")
    IN  IF \E i \in 1..Len(parts) : parts[i] = <<origin>> THEN origin ELSE ""

\* a request to a route under /api: its method, its X-API-KEY and Origin
\* headers ("": none), and whether the limiter has counted more than Max
\* requests of its IP in the running minute.  The OPTIONS requests of the
\* model are preflights: they carry Origin and Access-Control-Request-Method.
Requests ==
    [method : {"GET", "POST", "PUT", "DELETE"},
     key : {<<>>, <<"k">>, <<"q">>, <<"K">>, <<"k", ",", "q">>},
     origin : {"http://localhost:3000"},
     limited : BOOLEAN]
    \cup
    [method : {"OPTIONS"},
     key : {<<>>, <<"k">>},
     origin : {"http://localhost:3000", "http://b.example", "http://evil.com"},
     limited : BOOLEAN]

\* limiter, cors and authMiddleware, in the order main() installs them: the
\* response one of them sends, or NoResponse when the request reaches its route
Middleware(p, req) ==
    IF req.limited THEN [Response(429) EXCEPT !.err = "Rate limit exceeded"]
    ELSE IF req.method = "OPTIONS"
    THEN [Response(204) EXCEPT
            !.allow_origin = AllowOrigin(getAllowedOrigins(p.env), req.origin)]
    ELSE authMiddleware(p.validAPIKeys, req.key)

\* the handlers of the routes under /api
Route(method) ==
    \/ /\ method = "GET"
       /\ \E lang \in LangCodes, path \in PathIds : getEventHandler(lang, path)
    \/ /\ method = "GET"
       /\ \E lang \in LangCodes : getTagsHandler(lang)
    \/ /\ method = "GET"
       /\ \E lang \in LangCodes :
             getAllEventsHandler(lang, NoParam, NoParam, <<>>, <<>>, <<>>)
    \/ /\ method = "GET"
       /\ \E lang \in LangCodes : getEventsByTagHandler(lang, <<"first">>, NoParam, NoParam)
    \/ /\ method = "GET"
       /\ \E lang \in LangCodes : ftsSearchHandler(lang, <<"day">>, NoParam, NoParam)
    \/ /\ method = "POST"
       /\ \E lang \in LangCodes, body \in 0..1 : createEventHandler(lang, body, FALSE)
    \/ /\ method = "POST"
       /\ \E lang \in LangCodes : batchCreateEventsHandler(lang, 3, 0)
    \/ /\ method = "PUT"
       /\ \E lang \in LangCodes, path \in PathIds : updateEventHandlerLoad(lang, path, 1)
    \/ /\ method = "DELETE"
       /\ \E lang \in LangCodes, path \in PathIds : deleteEventHandler(lang, path, FALSE)

\* one request to /api/..., from the first middleware to the response
Serve(req) ==
    /\ proc.pc = "serving"
    /\ IF Middleware(proc, req) # NoResponse
       THEN /\ last' = Middleware(proc, req)
            /\ UNCHANGED <<db, now, nextUid, ever, deleted, writes, upd, srch, proc>>
       ELSE Route(req.method)

MainInit ==
    /\ db \in {[v \in Variants |-> SampleFiles[IF v = "en" THEN p[1] ELSE p[2]]] :
                  p \in {<<1, 1>>, <<2, 3>>, <<3, 1>>}}
    /\ proc \in {[pc |-> "main", validAPIKeys |-> <<>>,
                  env |-> Env(SampleApiKeys[e[1]], SampleAllowedOrigins[e[2]])] :
                    e \in {<<1, 1>>, <<2, 2>>, <<3, 1>>, <<4, 1>>, <<5, 2>>}}
    /\ now = 3
    /\ nextUid = 5
    /\ ever = [v \in Variants |-> {}]
    /\ deleted = [v \in Variants |-> {}]
    /\ writes = 0
    /\ upd = IdleUpdate
    /\ srch = IdleSearch
    /\ last = NoResponse

MainNext ==
    \/ \E failEN \in 0..8, failRU \in {0, 2, 6} : main(failEN, failRU)
    \/ Restart
    \/ \E req \in Requests : Serve(req)
    \/ proc.pc = "serving" /\ updateEventHandlerStore(FALSE)

MainSpec == MainInit /\ [][MainNext]_vars

-----------------------------------------------------------------------------
(* Properties *)

Uids(rows) == {r.uid : r \in rows}

\* what an index over exactly the rows of table holds
IndexOf(table) ==
    [docs |-> Ids(table),
     postings |-> UNION {Postings(r.id, r.title, r.description, r.tags) : r \in table}]

\* every word of q occurs, letter case aside, in the title, description or tags of r
TextMatches(r, q) ==
    \A i \in 1..Len(q) :
        \E c \in {"title", "description", "tags"} :
            \E j \in 1..Len(r[c]) : Lower(r[c][j]) = Lower(q[i])

\* the responses of a search that runs whole on storage d
ftsSearchResponses(d, q) == ftsSearchPageResponses(d, q, CountSQL(d, q))

\* C1: in every reachable state the search index of each variant holds one
\* document per row of its events table, under the row's id, with the index
\* entries of the row's current title, description and tags, and nothing else.
C1_IndexMirrorsTable == \A v \in Variants : db[v].fts = IndexOf(db[v].table)

\* an update has replaced the title of a row that a create had indexed
C1_Witness ==
    \E v \in Variants : \E r \in db[v].table :
        r.title = <<"genesis">> /\ r.media = "m2" /\ r.tags = <<"first">>

\* C2: a write whose index step fails answers 500 and leaves table and index
\* as they were, and after every step the index still mirrors the table: no
\* state shows the table changed without the index or the reverse.
C2_WriteIsOneUnit ==
    [][ /\ last'.status = 500 => db' = db
        /\ \A lang \in LangCodes, body \in 1..Len(SampleEvents) :
              createEventHandler(lang, body, TRUE)
                  => db' = db /\ last'.status \in {400, 500}
        /\ updateEventHandlerStore(TRUE)
              => db' = db /\ (last'.status = 500 \/ upd.event.id \notin Ids(db[upd.variant].table))
        /\ \A lang \in LangCodes, path \in PathIds :
              deleteEventHandler(lang, path, TRUE)
                  => db' = db /\ last'.status \in {400, 404, 500}
        /\ \A v \in Variants : db'[v].fts = IndexOf(db'[v].table) ]_vars

\* the index step of a write failed while the variant held rows
C2_Witness ==
    /\ last.status = 500
    /\ last.err = "io"
    /\ \E v \in Variants : db[v].table # {}

\* C3: a record whose delete has committed is in the table no more, the count
\* query of a search counts exactly the live rows that hold the words of the
\* query, and the page of a search holds no record deleted before the search
\* began to read.
C3_SearchNeverShowsDeleted ==
    [][ /\ \A v \in Variants : Uids(deleted'[v]) \cap Uids(db'[v].table) = {}
        /\ \A lang \in LangCodes, q \in SampleQueries \ {<<>>} :
              ftsSearchHandlerCount(lang, q) =>
                  srch'.total = Cardinality({r \in db[getDBInstance(lang)].table :
                      TextMatches(r, q) /\ r.uid \notin Uids(deleted[getDBInstance(lang)])})
        /\ ftsSearchHandlerPage =>
              \A i \in 1..Len(last'.events) :
                  last'.events[i].uid \notin Uids(deleted[srch.variant]) ]_vars

\* a search has run its count query after the delete of a record that held the
\* words of its query had committed
C3_Witness ==
    /\ srch.pc = "counted"
    /\ \E r \in deleted[srch.variant] : TextMatches(r, srch.query)

\* C4 (as claimed): after an update that succeeds, a search on the same variant
\* returns the event when its new text holds the words of the query, and does
\* not return it when it does not.
C4_SearchFollowsUpdate ==
    [][ (updateEventHandlerStore(FALSE) /\ last'.status = 200
            /\ upd.event.id \in Ids(db[upd.variant].table))
        => \A q \in SampleQueries \ {<<>>} :
              \A re \in ftsSearchResponses(db'[upd.variant], q) :
                  TextMatches(last'.event, q)
                      = (\E i \in 1..Len(re.events) : re.events[i].uid = last'.event.uid) ]_vars

\* C5 (as claimed): after a create that is accepted, get_event with the id
\* returned answers with a record whose date, title, description, tags, media
\* and references are the submitted ones.
C5_GetAfterCreate ==
    [][ \A lang \in LangCodes, body \in 1..Len(SampleEvents) :
          (createEventHandler(lang, body, FALSE) /\ last'.status = 201)
          => LET g == getEventResponse(db'[getDBInstance(lang)], Numeral(last'.event.id))
             IN  /\ g.status = 200
                 /\ \A c \in {"date", "title", "description", "tags", "media", "references"} :
                        g.event[c] = SampleEvents[body][c] ]_vars

\* C6: after delete_event(id) has answered 204, get_event(id) on the same
\* variant answers 404, neither a record nor a validation error.
C6_GetAfterDelete ==
    [][ \A lang \in LangCodes, path \in PathIds :
          (deleteEventHandler(lang, path, FALSE) /\ last'.status = 204)
          => getEventResponse(db'[getDBInstance(lang)], path) = Response(404) ]_vars

\* a delete has answered 204
C6_Witness == last.status = 204 /\ \E v \in Variants : deleted[v] # {}

\* C7 (as claimed): over the whole history of a variant an id has identified
\* one record only, and a record has had one id only.
C7_IdsStableNeverReused ==
    \A v \in Variants : \A p1, p2 \in ever[v] : (p1[1] = p2[1]) = (p1[2] = p2[2])

\* C8 (as claimed): every row of an events table has a title that is not empty
\* and a date that is not the zero date.
C8_TitleAndDateSet ==
    \A v \in Variants : \A r \in db[v].table : r.title # <<>> /\ r.date # ZeroTime

\* C9 (as claimed): a create with an empty title or a zero date answers 400 and
\* leaves the variant as it was; every other parseable record is stored, under
\* the id storage assigns and with the timestamps storage sets.
C9_CreateValidates ==
    [][ \A lang \in LangCodes, body \in 1..Len(SampleEvents) :
          createEventHandler(lang, body, FALSE)
          => IF SampleEvents[body].title = <<>> \/ SampleEvents[body].date = ZeroTime
             THEN last'.status = 400 /\ db' = db
             ELSE /\ last'.status = 201
                  /\ last'.event \in db'[getDBInstance(lang)].table
                  /\ last'.event.id = NextRowid(db[getDBInstance(lang)])
                  /\ last'.event.created_at = now
                  /\ last'.event.updated_at = now ]_vars

\* C10 (as claimed): an update of an existing id, no other write coming
\* between its SELECT and its UPDATE, sets the supplied fields, keeps the
\* others and every other row, sets updated_at to the time of the update and
\* answers with the row as stored; an update of an unknown id answers 404 and
\* changes nothing.
C10_UpdateFrame ==
    [][ /\ (updateEventHandlerStore(FALSE) /\ last'.status = 200
               /\ upd.event \in db[upd.variant].table)
           => LET v == upd.variant
                  old == upd.event
                  set == SamplePatches[upd.body].set
                  new == last'.event
              IN  /\ db'[v].table = (db[v].table \ {old}) \cup {new}
                  /\ \A u \in Variants \ {v} : db'[u] = db[u]
                  /\ \A c \in Columns \ {"updated_at"} :
                        new[c] = IF c \in DOMAIN set THEN set[c] ELSE old[c]
                  /\ new.updated_at = now
        /\ \A lang \in LangCodes, path \in PathIds, body \in 1..Len(SamplePatches) :
              (updateEventHandlerLoad(lang, path, body) /\ ~ParseUint32(path).err
                  /\ ParseUint32(path).value \notin Ids(db[getDBInstance(lang)].table))
              => last'.status = 404 /\ db' = db /\ upd' = upd ]_vars

\* C11: for every date filter and every tag, with N matching records and every
\* page size L >= 1, list_events and list_events_by_tag report ceil(N / L)
\* pages, and pages 1..ceil(N / L) one after the other hold every matching
\* record exactly once by falling date, records of one date included.
C11_PaginationLaw ==
    LET \* ceil(n / l) for a count n and a page size l >= 1
        Ceil(n, l) == IF l.k >= 1 THEN (IF n = 0 THEN 0 ELSE 1) ELSE (n + l.o - 1) \div l.o
        RECURSIVE Concat(_)
        Concat(ss) == IF ss = <<>> THEN <<>> ELSE Head(ss) \o Concat(Tail(ss))
        \* the pages, one after the other, hold exactly the records of rows,
        \* each once, by falling date
        WholeOnce(pages, rows) ==
            LET all == Concat(pages)
            IN  /\ {all[i] : i \in 1..Len(all)} = rows
                /\ Len(all) = Cardinality(rows)
                /\ \A i, j \in 1..Len(all) : i < j => all[i].date >= all[j].date
    IN  \* small page sizes, the default and the largest int
        \A v \in Variants, l \in {GoInt(1), GoInt(2), GoInt(3), GoInt(DefaultLimit), MaxInt} :
            /\ \A f \in DateFilters :
                  LET rows == {r \in db[v].table : DateWhere(r, f.year, f.month, f.day)}
                      n == Ceil(Cardinality(rows), l)
                      page(p) == getAllEventsResponse(db[v], IntParam(GoInt(p)), IntParam(l),
                                                      f.year, f.month, f.day)
                  IN  /\ page(1).last_page = GoInt(n)
                      /\ WholeOnce([p \in 1..n |-> page(p).events], rows)
            /\ \A tag \in TagParams :
                  LET rows == {r \in db[v].table : TagWhere(r, tag)}
                      n == Ceil(Cardinality(rows), l)
                      page(p) == getEventsByTagResponse(db[v], tag, IntParam(GoInt(p)), IntParam(l))
                  IN  /\ page(1).last_page = GoInt(n)
                      /\ WholeOnce([p \in 1..n |-> page(p).events], rows)

\* C12: every answer of list_events, list_events_by_tag and search_events to a
\* request with page and page-size parameters reports the page coerced to 1
\* and the page size coerced to 20 when missing, non-numeric or < 1, and holds
\* the matching rows that follow the first (page - 1) * page_size.  (A numeral
\* too long for an int is left out: the rule does not say what it stands for.)
C12_Coercion ==
    [][LET \* the number a parameter stands for: its value when it is a numeral of
           \* 1 or more, the default when it is missing, no numeral or < 1
           Coerced(param, defaultValue) ==
               IF param.text = "numeral" /\ ~IntLess(param.value, GoInt(1))
               THEN param.value ELSE GoInt(defaultValue)
           \* (page - 1) * limit rows of len, as far as there are that many
           Skipped(page, limit, len) ==
               IF page = GoInt(1) THEN 0
               ELSE IF page.k >= 1 \/ limit.k >= 1 THEN len
               ELSE IF (page.o - 1) * limit.o > len THEN len ELSE (page.o - 1) * limit.o
           \* resp reports the coerced page and page size of p and holds the rows
           \* of all that follow the first (page - 1) * limit, a page of them
           CoercedPage(resp, p, all) ==
               LET page == Coerced(p.page, DefaultPage)
                   limit == Coerced(p.limit, DefaultLimit)
               IN  /\ resp.status = 200
                   /\ resp.current_page = page
                   /\ resp.per_page = limit
                   /\ resp.events = LimitOffset(all, RowCount(limit, Len(all)),
                                                Skipped(page, limit, Len(all)))
       IN  \A lang \in LangParams :
           \A p \in {x \in Paginations : "long" \notin {x.page.text, x.limit.text}} :
              LET d == db[getDBInstance(QueryLang(lang))]
              IN  /\ \A f \in DateFilters :
                        getAllEventsHandler(QueryLang(lang), p.page, p.limit,
                                            f.year, f.month, f.day)
                            => CoercedPage(last', p, OrderByDateDesc(
                                   {r \in d.table : DateWhere(r, f.year, f.month, f.day)}))
                  /\ \A tag \in TagParams :
                        getEventsByTagHandler(QueryLang(lang), tag, p.page, p.limit)
                            => CoercedPage(last', p, OrderByDateDesc(
                                   {r \in d.table : TagWhere(r, tag)}))
                  /\ \A q \in MarkedQueries :
                        ftsSearchHandler(QueryLang(lang), q, p.page, p.limit)
                               /\ Fts5Error(Sanitize(q)) = ""
                            => \E s \in Ranked(d, q) : CoercedPage(last', p, s)
      ]_vars

\* C13: list_events answers a request whose year, month or day is no number,
\* or whose month is outside 1..12 or day outside 1..31, as it answers the
\* request without those components: with success and the result of the
\* remaining valid filters.
C13_InvalidDateIgnored ==
    LET \* the number a text of decimal digits spells; -1 for any other text
        RECURSIVE NumberOf(_)
        NumberOf(t) ==
            IF t = <<>> \/ \E i \in 1..Len(t) : \A d \in 1..10 : t[i] # DigitChars[d]
            THEN 0 - 1
            ELSE IF Len(t) = 1 THEN CHOOSE n \in 0..9 : DigitChars[n + 1] = t[1]
            ELSE 10 * NumberOf(SubSeq(t, 1, Len(t) - 1)) + NumberOf(<<t[Len(t)]>>)
    IN  \A v \in Variants, f \in DateFilters :
            LET resp == getAllEventsResponse(db[v], NoParam, NoParam, f.year, f.month, f.day)
                \* f without its invalid components
                year == IF NumberOf(f.year) >= 0 THEN f.year ELSE <<>>
                month == IF NumberOf(f.month) \in 1..12 THEN f.month ELSE <<>>
                day == IF NumberOf(f.day) \in 1..31 THEN f.day ELSE <<>>
            IN  /\ resp.status = 200
                /\ resp = getAllEventsResponse(db[v], NoParam, NoParam, year, month, day)

\* C14: get_event answers an id that is no base-10 number of the unsigned
\* 32-bit range with a validation error (400) whatever the storage holds, and
\* a well-formed id that is not in the table with not found (404), a different
\* answer.
C14_InvalidIdIsNotNotFound ==
    [][\A lang \in LangParams, path \in PathIds :
          getEventHandler(QueryLang(lang), path) =>
              \* the path spells a number of 0 .. 4294967295
              IF ~(path.digits /\ ~IdLess(path.value, ZeroId) /\ IdLess(path.value, BigId))
              THEN /\ last' = Response(400)
                   /\ \A i \in 1..Len(SampleTables) :
                         getEventResponse(Load(SampleTables[i]), path) = last'
              ELSE IF path.value \notin Ids(db[getDBInstance(QueryLang(lang))].table)
              THEN last' = Response(404)
              ELSE last'.status \notin {400, 404}
      ]_vars

\* a get_event has answered an ill-formed id while the tables held records
C14_Witness ==
    /\ last = Response(400)
    /\ \A v \in Variants : db[v].table # {}

\* C15: list_tags answers with one entry per distinct lowercased tag, in
\* alphabetical order, whose count is the number of occurrences of the tag,
\* letter case aside, in the tag arrays of all rows, two for a row that lists
\* it twice; empty and white-space-only entries are not counted.
C15_TagCounts ==
    \A v \in Variants :
        LET \* the entries of the tag arrays, each as <<row, position, tag>>:
            \* of the rows whose tags are a JSON array, the elements that are
            \* not empty and not white space only
            occurrences ==
                UNION {{<<e.uid, i, Json(e.tags).elems[i].val>> :
                           i \in {k \in 1..Len(Json(e.tags).elems) :
                                     \E j \in 1..Len(Json(e.tags).elems[k].val) :
                                         Json(e.tags).elems[k].val[j] \notin {" ", "\t"}}} :
                       e \in {r \in db[v].table : json_valid(r.tags) /\ json_type(r.tags) = "array"}}
            tags == OrderByTag({ToLower(x[3]) : x \in occurrences})
            resp == getTagsResponse(db[v])
        IN  /\ resp.status = 200
            /\ resp.tags =
                  [i \in 1..Len(tags) |->
                      [tag |-> tags[i],
                       count |-> Cardinality({x \in occurrences : ToLower(x[3]) = tags[i]})]]

\* C16: list_tags succeeds whatever the tables hold, and answers as it would
\* if the rows whose tags are empty, "[]", not valid JSON or not a JSON array
\* were not there: they add nothing to any count and change no count of the
\* well-formed rows.
C16_MalformedTagsIgnored ==
    LET Malformed(tags) ==
            \/ tags = <<>>
            \/ tags = <<"[", "]">>
            \/ ~json_valid(tags)
            \/ json_type(tags) # "array"
    IN  \A v \in Variants :
            /\ getTagsResponse(db[v]).status = 200
            /\ getTagsResponse(db[v]) =
                  getTagsResponse([db[v] EXCEPT
                                      !.table = {r \in db[v].table : ~Malformed(r.tags)}])
            /\ \A r \in db[v].table :
                  Malformed(r.tags) => \A x \in TagRows(db[v].table) : x[1] # r.uid

\* list_tags has answered with counts on a table that holds a row whose tags
\* are not JSON and a row whose tags are an object
C16_Witness ==
    /\ last.status = 200
    /\ last.tags # <<>>
    /\ \E v \in Variants :
          /\ last = getTagsResponse(db[v])
          /\ \E r \in db[v].table : ~json_valid(r.tags)
          /\ \E r \in db[v].table : json_valid(r.tags) /\ json_type(r.tags) = "object"

\* C17: in either variant, every stored event whose tags array contains a tag
\* t is among the events list_events_by_tag returns for every tag parameter
\* that is t but for letter case.
C17_TagCaseInsensitive ==
    LET \* the tags of a row whose tags are a JSON array of strings
        TagsOf(r) ==
            IF json_valid(r.tags) /\ json_type(r.tags) = "array"
            THEN {Json(r.tags).elems[i].val :
                     i \in {k \in 1..Len(Json(r.tags).elems) :
                               Json(r.tags).elems[k].type = "text"}}
            ELSE {}
    IN  \A v \in Variants : \A r \in db[v].table : \A t \in TagsOf(r) : \A param \in TagParams :
            ToLower(param) = ToLower(t)
                => LET resp == getEventsByTagResponse(db[v], param, NoParam, NoParam)
                   IN  \E i \in 1..Len(resp.events) : resp.events[i] = r

\* C18: every event list_events_by_tag returns for a tag parameter has a
\* stored tags text that contains, letter case aside, the exact characters
\* quotation mark, tag, quotation mark: no character of the parameter stands
\* for any other.
C18_TagMatchedLiterally ==
    LET \* text holds the characters of part, in a row and in this order
        Contains(text, part) ==
            \E i \in 0..(Len(text) - Len(part)) : SubSeq(text, i + 1, i + Len(part)) = part
    IN  \A v \in Variants, param \in TagParams :
            LET resp == getEventsByTagResponse(db[v], param, NoParam, NoParam)
            IN  \A i \in 1..Len(resp.events) :
                    Contains(ToLower(resp.events[i].tags), <<"\"">> \o ToLower(param) \o <<"\"">>)

\* C19: for every query text search_events looks up the words of the text and
\* nothing else: quotation marks, operators, column filters and other marks
\* of the index's query grammar neither change which documents match nor make
\* the query fail in storage.
C19_QueryTextLiteral ==
    \A v \in Variants, q \in MarkedQueries :
        LET \* the words of the text, as the tokenizer of the index reads a text
            words == {Lower(q[i]) : i \in {k \in 1..Len(q) : q[k] \notin Separators}}
        IN  /\ Fts5Error(Sanitize(q)) = ""
            /\ MatchIds(db[v].fts, q) =
                  {id \in db[v].fts.docs :
                      \A w \in words : \E p \in db[v].fts.postings : p.rowid = id /\ p.term = w}

\* C20: a request is answered from the Russian variant when its lang parameter
\* is ru in any letter case and from the English variant for every other
\* value and without the parameter, whatever else the request holds: the
\* variant the handlers take, and with it the answers of get_event,
\* list_events, list_events_by_tag and list_tags, are those of the chosen
\* variant.
C20_LanguageSelectsVariant ==
    LET \* the variant a lang parameter stands for ("": a request without one)
        Chosen(param) == IF param \in {"ru", "Ru", "rU", "RU"} THEN "ru" ELSE "en"
        \* the answers of the four operations to requests on storage d
        ReadResponses(d) ==
            [tags |-> getTagsResponse(d),
             all |-> getAllEventsResponse(d, NoParam, NoParam, <<>>, <<>>, <<>>),
             byTag |-> [tag \in TagParams |-> getEventsByTagResponse(d, tag, NoParam, NoParam)],
             event |-> [path \in PathIds |-> getEventResponse(d, path)]]
    IN  \A param \in LangParams :
            /\ getDBInstance(QueryLang(param)) = Chosen(param)
            /\ ReadResponses(db[getDBInstance(QueryLang(param))]) = ReadResponses(db[Chosen(param)])

\* list_tags has answered from a Russian variant whose tags are not those of
\* the English one
C20_Witness ==
    /\ last.status = 200
    /\ last.tags # <<>>
    /\ last = getTagsResponse(db["ru"])
    /\ last # getTagsResponse(db["en"])

\* C21: every operation, taken with any language, leaves the table and the
\* index of the variant it did not choose exactly as they were, and its answer
\* is made of the chosen variant's rows alone: a get answers 404 for an id the
\* chosen variant lacks even when the other variant holds it, and the same id
\* can be a different record in each variant.
C21_VariantsIndependent ==
    [][ LET Kept(v) == \A w \in Variants \ {v} : db'[w] = db[w]
            OnRequest(lang) ==
                \/ \E body \in 0..Len(SampleEvents), ioFail \in BOOLEAN :
                        createEventHandler(lang, body, ioFail)
                \/ \E body \in 0..Len(SampleBatches), failAt \in 0..2 :
                        batchCreateEventsHandler(lang, body, failAt)
                \/ \E path \in PathIds, body \in 0..Len(SamplePatches) :
                        updateEventHandlerLoad(lang, path, body)
                \/ \E path \in PathIds, ioFail \in BOOLEAN :
                        deleteEventHandler(lang, path, ioFail)
                \/ \E path \in PathIds : getEventHandler(lang, path)
                \/ \E q \in SampleQueries : ftsSearchHandlerCount(lang, q)
        IN  /\ \A lang \in LangCodes :
                  OnRequest(lang) => Kept(IF lang = "RU" THEN "ru" ELSE "en")
            /\ (\E ioFail \in BOOLEAN : updateEventHandlerStore(ioFail)) => Kept(upd.variant)
            /\ ftsSearchHandlerPage => Kept(srch.variant)
            /\ \A lang \in LangCodes, path \in PathIds :
                  getEventHandler(lang, path) =>
                      LET own == db[IF lang = "RU" THEN "ru" ELSE "en"].table
                      IN  /\ last'.status = 200 => last'.event \in own
                          /\ last'.status = 404 => path.value \notin Ids(own)
            /\ \A lang \in LangCodes, body \in 1..Len(SampleEvents) :
                  createEventHandler(lang, body, FALSE) /\ last'.status = 201 =>
                      /\ last'.event \in db'[IF lang = "RU" THEN "ru" ELSE "en"].table
                      /\ BodyEvent(body).id = ZeroId =>
                            last'.event.id = NextRowid(db[IF lang = "RU" THEN "ru" ELSE "en"]) ]_vars

\* both variants hold a row with id 1, two different records, and a get of
\* id 2 has answered 404
C21_Witness ==
    /\ \E r \in db["en"].table, s \in db["ru"].table :
          r.id = Id(1) /\ s.id = Id(1) /\ r.uid # s.uid /\ r.title # s.title
    /\ last.status = 404

\* C22 (as amended): a request whose X-API-KEY is none of the keys configured
\* at startup reaches no handler: it leaves every table and index as they
\* were, its response carries no record, and it is answered 429 when the rate
\* limiter rejects it, 204 when it is a CORS preflight, and 401 in every other
\* case.  A serving process holds at least one key, each of them non-empty
\* and free of surrounding blanks; started on an API_KEYS without one
\* character that is neither comma nor blank, main() exits before it opens
\* a database.
C22_KeyRequired ==
    [][ LET Configured(key) ==
                \E i \in 1..Len(proc.validAPIKeys) : proc.validAPIKeys[i] = key
            Blank == {",", " ", "\t", "\n"}
        IN  /\ \A req \in Requests :
                  proc.pc = "serving" /\ ~Configured(req.key) /\ Serve(req) =>
                      /\ db' = db
                      /\ last'.event = NoRow /\ last'.events = <<>> /\ last'.tags = <<>>
                      /\ last'.n = 0
                      /\ last'.status = IF req.limited THEN 429
                                        ELSE IF req.method = "OPTIONS" THEN 204
                                        ELSE 401
            /\ proc'.pc = "serving" =>
                  /\ proc'.validAPIKeys # <<>>
                  /\ \A i \in 1..Len(proc'.validAPIKeys) :
                        LET key == proc'.validAPIKeys[i]
                        IN  /\ key # <<>>
                            /\ \A j \in 1..Len(key) : key[j] \notin Blank
                            /\ \E a \in 1..Len(proc'.env.API_KEYS) :
                                  SubSeq(proc'.env.API_KEYS, a, a + Len(key) - 1) = key
            /\ ( /\ proc.pc = "main"
                 /\ \A a \in 1..Len(proc.env.API_KEYS) : proc.env.API_KEYS[a] \in Blank
                 /\ \E failEN \in 0..8, failRU \in {0, 2, 6} : main(failEN, failRU) )
                  => proc'.pc = "exited" /\ db' = db ]_vars

\* the process, started with two keys, has answered 401 to a key that is
\* neither of them, while its tables hold events
C22_Witness ==
    /\ proc.pc = "serving"
    /\ Len(proc.validAPIKeys) = 2
    /\ last.status = 401
    /\ last.err = "Invalid API key"
    /\ \E v \in Variants : db[v].table # {}

\* C22 as stated: a request with a missing or non-matching key is always
\* answered 401
C22_AlwaysUnauthorized ==
    [][ \A req \in Requests :
            ( /\ proc.pc = "serving"
              /\ \A i \in 1..Len(proc.validAPIKeys) : proc.validAPIKeys[i] # req.key
              /\ Serve(req) )
                => last'.status = 401 ]_vars

\* C23 (as amended): a CORS preflight the rate limiter lets through is
\* answered 204, and its response carries Access-Control-Allow-Origin exactly
\* when its Origin is one of the origins of CORS_ALLOWED_ORIGINS (unset:
\* http://localhost:3000), the header then being that origin; a preflight the
\* limiter rejects is answered 429 without the header.  Neither touches a table.
C23_PreflightAllowOrigin ==
    [][ LET allowed ==
                IF proc.env.CORS_ALLOWED_ORIGINS = <<>> THEN {"http://localhost:3000"}
                ELSE {proc.env.CORS_ALLOWED_ORIGINS[i] :
                        i \in 1..Len(proc.env.CORS_ALLOWED_ORIGINS)} \ {",", " "}
        IN  \A req \in {r \in Requests : r.method = "OPTIONS"} :
                proc.pc = "serving" /\ Serve(req) =>
                    /\ db' = db
                    /\ last'.status = IF req.limited THEN 429 ELSE 204
                    /\ last'.allow_origin =
                          IF ~req.limited /\ req.origin \in allowed THEN req.origin ELSE "" ]_vars

\* a preflight from the second configured origin has been answered 204 with
\* that origin in the header
C23_Witness ==
    /\ proc.pc = "serving"
    /\ proc.env.CORS_ALLOWED_ORIGINS # <<>>
    /\ last.status = 204
    /\ last.allow_origin = "http://b.example"

\* C23 as stated: every preflight from an allowed origin is answered 204 with
\* the header set to that origin, and no other preflight gets the header
C23_EveryPreflight ==
    [][ LET allowed ==
                IF proc.env.CORS_ALLOWED_ORIGINS = <<>> THEN {"http://localhost:3000"}
                ELSE {proc.env.CORS_ALLOWED_ORIGINS[i] :
                        i \in 1..Len(proc.env.CORS_ALLOWED_ORIGINS)} \ {",", " "}
        IN  \A req \in {r \in Requests : r.method = "OPTIONS"} :
                proc.pc = "serving" /\ Serve(req) =>
                    /\ last'.allow_origin # "" <=> req.origin \in allowed
                    /\ req.origin \in allowed =>
                          last'.status = 204 /\ last'.allow_origin = req.origin ]_vars

\* C24: for a fixed state of the index, a search has one possible answer,
\* equal ranks included, and the pages of a search, read one after the other
\* with one record a page, hold every matching record exactly once.
C24_SearchPagesDeterministic ==
    \A v \in Variants :
        LET q == <<"day">>
            total == CountSQL(db[v], q)
            Page(p) == ftsSearchPage(db[v], q, total, IntParam(GoInt(p)), IntParam(GoInt(1)))
        IN  /\ \A p \in 1..total :
                  /\ Cardinality(Page(p)) = 1
                  /\ \A r \in Page(p) : r.status = 200 /\ Len(r.events) = 1
            /\ \A p1, p2 \in 1..total : \A r1 \in Page(p1), r2 \in Page(p2) :
                  p1 # p2 /\ r1.events # <<>> /\ r2.events # <<>>
                      => r1.events[1].id # r2.events[1].id
            /\ Ids(JoinMatch(db[v], q))
                  = UNION {{r.events[i].id : i \in 1..Len(r.events)} :
                              r \in UNION {Page(p) : p \in 1..total}}

\* C25: when main() finds a variant whose events table holds rows and whose
\* search index is empty, the index holds the entries of every row of the
\* table by the time the process begins to serve requests.
C25_BackfillBeforeServing ==
    [][ proc.pc = "main" /\ proc'.pc = "serving" =>
            \A v \in Variants :
                db[v].table # {} /\ db[v].fts = EmptyFts =>
                    db'[v].fts = IndexOf(db'[v].table) ]_vars

\* C26: InitDB run on a database an earlier InitDB has completed leaves it as
\* it found it: the same rows, the same index entries, and in its schema the
\* table, the index, the two indexes and each of the three triggers, once.
\* Run again on its own result it changes nothing.
C26_InitDBIdempotent ==
    [][ proc.pc = "main" /\ proc'.pc = "serving" =>
            \A v \in Variants :
                /\ db[v].schema = Schema => db'[v] = db[v]
                /\ db'[v].schema = Schema
                /\ InitDB(db'[v], 0).err = ""
                /\ InitDB(db'[v], 0).d = db'[v] ]_vars

\* the process has been started again on a database that holds an event
\* created through a handler of its earlier run, and serves
C26_Witness ==
    /\ proc.pc = "serving"
    /\ last = NoResponse
    /\ writes > 0
    /\ \E v \in Variants : \E r \in db[v].table : r.uid >= 5 /\ r.id \in db[v].fts.docs

\* C27: an update answers 200 only if the row is in the table when its UPDATE
\* runs: after a delete of the row has committed between the update's SELECT
\* and its UPDATE, the update answers 404 or 500.
C27_UpdateSeesDelete ==
    [][ \A ioFail \in BOOLEAN :
            updateEventHandlerStore(ioFail) /\ upd.event.id \notin Ids(db[upd.variant].table)
                => last'.status \in {404, 500} ]_vars

\* C28: the total and the last_page of a list_events, list_events_by_tag or
\* search_events response are those of the table state its page of records
\* was read from, whatever writes commit while the request runs: the response
\* is the one the request gives when it runs on that state without interruption.
C28_CountAndPageOfOneState ==
    [][ /\ getAllEventsHandlerFind =>
              last' = getAllEventsResponse(db[srch.variant], NoParam, NoParam,
                                           <<>>, <<>>, <<>>)
        /\ getEventsByTagHandlerFind =>
              last' = getEventsByTagResponse(db[srch.variant], srch.query, NoParam, NoParam)
        /\ ftsSearchHandlerPage /\ last'.status = 200 =>
              last'.total = CountSQL(db[srch.variant], srch.query) ]_vars

\* C29: for every page and page size the three paginated handlers accept,
\* numerals beyond the int range included, the offset they compute is the
\* product (page - 1) * page_size itself, not negative and not wrapped, and
\* the last_page they report is ceil(total / page_size).
C29_OffsetAndLastPageExact ==
    LET \* the product of two ints as a number: k * 2^63 + o, k not reduced
        Product(a, b) == [k |-> a.k * b.o + b.k * a.o, o |-> a.o * b.o]
        Ceil(n, l) == IF l.k >= 1 THEN (IF n = 0 THEN 0 ELSE 1) ELSE (n + l.o - 1) \div l.o
        Exact(page, limit, total, response) ==
            /\ Offset(page, limit) = Product(IntAdd(page, GoInt(0 - 1)), limit)
            /\ ~IntLess(Offset(page, limit), GoInt(0))
            /\ response.status = 200 => response.last_page = GoInt(Ceil(total, limit))
    IN  \A v \in Variants, p \in Paginations :
            /\ Exact(AtLeastOneIgnoringErr(Atoi(Query(p.page, DefaultPage)), DefaultPage),
                     AtLeastOneIgnoringErr(Atoi(Query(p.limit, DefaultLimit)), DefaultLimit),
                     Cardinality(db[v].table),
                     getAllEventsResponse(db[v], p.page, p.limit, <<>>, <<>>, <<>>))
            /\ Exact(AtLeastOne(Atoi(Query(p.page, DefaultPage)), DefaultPage),
                     AtLeastOne(Atoi(Query(p.limit, DefaultLimit)), DefaultLimit),
                     Cardinality({r \in db[v].table : TagWhere(r, <<"a">>)}),
                     getEventsByTagResponse(db[v], <<"a">>, p.page, p.limit))
            /\ \A response \in ftsSearchPage(db[v], <<"day">>, CountSQL(db[v], <<"day">>),
                                            p.page, p.limit) :
                  Exact(AtLeastOne(Atoi(Query(p.page, DefaultPage)), DefaultPage),
                        AtLeastOne(Atoi(Query(p.limit, DefaultLimit)), DefaultLimit),
                        CountSQL(db[v], <<"day">>), response)

\* C30: a batch create that answers 201 has added every submitted record, in
\* the order submitted, to the table and to the index of its variant, nothing
\* else, and reports their number as events_added; a batch create that fails,
\* the empty batch and the unparseable body (400) included, leaves table and
\* index as they were.
C30_BatchAllOrNothing ==
    [][ \A lang \in LangCodes, body \in 0..Len(SampleBatches), failAt \in 0..2 :
            batchCreateEventsHandler(lang, body, failAt) =>
                LET v == IF lang = "RU" THEN "ru" ELSE "en"
                    events == BodyEvents(body)
                    added == db'[v].table \ db[v].table
                IN  IF last'.status = 201
                    THEN /\ last'.n = Len(events)
                         /\ Len(events) > 0
                         /\ db[v].table \subseteq db'[v].table
                         /\ Cardinality(added) = Len(events)
                         /\ \A i \in 1..Len(events) :
                               \E r \in added :
                                   /\ r.uid = nextUid + i - 1
                                   /\ r.title = events[i].title
                                   /\ r.description = events[i].description
                                   /\ r.tags = events[i].tags
                                   /\ r.date = events[i].date
                                   /\ r.id \in db'[v].fts.docs
                                   /\ Postings(r.id, r.title, r.description, r.tags)
                                         \subseteq db'[v].fts.postings
                         /\ db'[v].fts.docs = db[v].fts.docs \cup Ids(added)
                    ELSE /\ db' = db
                         /\ last'.status \in {400, 500}
                         /\ Len(events) = 0 => last'.status = 400 ]_vars

\* a batch of two events has been added: events_added is 2 and the index
\* holds both
C30_Witness ==
    /\ last.status = 201
    /\ last.n = 2
    /\ \E v \in Variants :
          /\ Cardinality(db[v].table) = 2
          /\ db[v].fts.docs = Ids(db[v].table)

====
